---- MODULE Spec2Model ----
(***************************************************************************)
(* LinguaFlow-AI: the IndexedDB record store (services/db.ts), the query   *)
(* engine, the spaced-repetition scheduler and the backup protocol         *)
(* (store/AppContext.tsx), as a state machine.                             *)
(*                                                                         *)
(* Timestamps are milliseconds, as in the source.  Record ids stand for    *)
(* nanoid() strings; they are numbered so that the key order of an object  *)
(* store (ascending primary key) is the order of the numbers.  Text is a   *)
(* sequence of one-letter strings so that toLowerCase, includes and        *)
(* localeCompare can be computed letter by letter.                         *)
(***************************************************************************)
EXTENDS Integers, Sequences, FiniteSets, TLC

VARIABLES
    db,       \* the five object stores of lingua_flow_db: kind -> (key -> record)
    now,      \* the clock read by Date.now()
    last,     \* the most recent call: its name, arguments, the store before it, its result
    mem,      \* the React state of AppProvider: articles, settings, isLoading
    run       \* the calls in progress: each one's position and transaction

vars == <<db, now, last, mem, run>>

-----------------------------------------------------------------------------
(* Bounds of the model *)

\* passes are modelled while the card's stage is below MaxStage
MaxStage == 3
\* the clock advances up to MaxNow milliseconds
MaxNow == 2
\* the card library holds up to MaxCards flashcards
MaxCards == 3
\* pages of 1 .. MaxPageSize cards
MaxPageSize == 2
\* a backup document lists up to MaxDocRecords records
MaxDocRecords == 2

-----------------------------------------------------------------------------
(* Plain JavaScript helpers *)

\* an object without properties, and { ...g, ...f } (the properties of f win)
EmptyObj == [k \in {} |-> 0]

Spread(g, f) == [k \in (DOMAIN f) \cup (DOMAIN g) |-> IF k \in DOMAIN f THEN f[k] ELSE g[k]]

\* Math.pow(2, n) for a natural n
RECURSIVE Pow2(_)
Pow2(n) == IF n <= 0 THEN 1 ELSE 2 * Pow2(n - 1)

\* 24 * 60 * 60 * 1000
MsPerDay == 24 * 60 * 60 * 1000

-----------------------------------------------------------------------------
(* The record store: db.get / db.put on one object store *)

Kinds == {"articles", "segments", "flashcards", "settings", "collections"}

EmptyDB == [k \in Kinds |-> EmptyObj]

\* db.get(kind, key): the record, or undefined (modelled as an absent-marker record)
Undefined == [undefined |-> TRUE]

StoreGet(d, kind, key) == IF key \in DOMAIN d[kind] THEN d[kind][key] ELSE Undefined

StorePutMerging(d, kind, rec) ==
    [d EXCEPT ![kind] = [k \in (DOMAIN d[kind]) \cup {rec.id} |->
                            IF k # rec.id THEN d[kind][k]
                            ELSE IF k \in DOMAIN d[kind] THEN Spread(d[kind][k], rec)
                            ELSE rec]]

\* db.put(kind, record): upsert by the key path 'id'
StorePut(d, kind, rec) ==
    [d EXCEPT ![kind] = [k \in (DOMAIN d[kind]) \cup {rec.id} |->
                            IF k = rec.id THEN rec ELSE d[kind][k]]]

getFlashcard(d, id) == StoreGet(d, "flashcards", id)

updateFlashcard(d, card) == StorePut(d, "flashcards", card)

-----------------------------------------------------------------------------
(* The application state: AppProvider's articles and settings, and loadData *)

\* db.getAllFromIndex('articles', 'by-date'): the articles that have a
\* processedAt, in ascending order of (processedAt, primary key)
RECURSIVE InDateOrder(_, _)
InDateOrder(store, S) ==
    IF S = {} THEN <<>>
    ELSE LET k == CHOOSE x \in S : \A y \in S :
                      \/ store[x].processedAt < store[y].processedAt
                      \/ store[x].processedAt = store[y].processedAt /\ x <= y
         IN <<store[k]>> \o InDateOrder(store, S \ {k})

getArticles(d) ==
    InDateOrder(d.articles, {k \in DOMAIN d.articles : "processedAt" \in DOMAIN d.articles[k]})

\* db.get('settings', 'config')
getSettings(d) == StoreGet(d, "settings", "config")

saveSettingsKeepingId(d, settings) == StorePut(d, "settings", settings)

\* db.put('settings', { ...settings, id: 'config' })
saveSettings(d, settings) == StorePut(d, "settings", Spread(settings, [id |-> "config"]))

\* Array.prototype.reverse
Reverse(arr) == [i \in 1..Len(arr) |-> arr[Len(arr) + 1 - i]]

DEFAULT_SETTINGS ==
    [analysisModel |-> "gemini-2.5-flash", translationModel |-> "gemini-2.5-flash",
     ttsModel |-> "gemini-2.5-flash-preview-tts", pronunciationModel |-> "gemini-2.5-flash",
     ttsEngine |-> "gemini", segmentLength |-> 1200,
     enabledTypes |-> <<"vocabulary", "grammar", "literary", "historical">>]

\* the useState initial values of AppProvider
InitialMem == [articles |-> <<>>, settings |-> DEFAULT_SETTINGS, isLoading |-> TRUE]

ReloadedWithoutDefaults(m, d) ==
    [m EXCEPT !.articles = Reverse(getArticles(d)),
              !.settings = IF getSettings(d) # Undefined THEN getSettings(d) ELSE @]

\* setArticles(dbArticles.reverse()); if (dbSettings) setSettings({ ...DEFAULT_SETTINGS, ...dbSettings })
Reloaded(m, d) ==
    [m EXCEPT !.articles = Reverse(getArticles(d)),
              !.settings = IF getSettings(d) # Undefined
                           THEN Spread(DEFAULT_SETTINGS, getSettings(d)) ELSE @]

\* the React state once loadData has finished on the store d
Loaded(d) == [Reloaded(InitialMem, d) EXCEPT !.isLoading = FALSE]

-----------------------------------------------------------------------------
(* The scheduler: markCardReviewed *)

\* a flashcard as approveWordsForSegment creates it at time t
NewCard(id, articleId, type, level, word, translation, t) ==
    [id |-> id, articleId |-> articleId, type |-> type, level |-> level,
     word |-> word, persianTranslation |-> translation,
     nextReview |-> t, stage |-> 0, createdAt |-> t]

NewStageResetBelowOne(stage, quality) == IF quality >= 1 THEN stage + 1 ELSE 0

\* newStage of markCardReviewed
NewStage(stage, quality) == IF quality >= 3 THEN stage + 1 ELSE 0

IntervalDaysOfOldStage(stage, quality) == IF quality >= 3 THEN Pow2(stage) ELSE 0

\* intervalDays of markCardReviewed, from the card's stage before the review
IntervalDays(stage, quality) == IF quality >= 3 THEN Pow2(stage + 1) ELSE 0

ReviewedCardRebuilt(card, quality, t) ==
    [NewCard(card.id, card.articleId, card.type, card.level, card.word,
             card.persianTranslation, card.createdAt)
        EXCEPT !.stage = NewStage(card.stage, quality),
               !.nextReview = t + IntervalDays(card.stage, quality) * MsPerDay]

\* the record markCardReviewed writes back
ReviewedCard(card, quality, t) ==
    [card EXCEPT !.stage = NewStage(card.stage, quality),
                 !.nextReview = t + IntervalDays(card.stage, quality) * MsPerDay]

Qualities == {-1, 0, 1, 2, 3, 5}

ReviewCardIds == {1, 2}

UnknownCardId == 9

markCardReviewed(cardId, quality) ==
    LET card == getFlashcard(db, cardId) IN
    /\ (card # Undefined /\ quality >= 3) => card.stage < MaxStage
    /\ db' = IF card = Undefined THEN db
             ELSE updateFlashcard(db, ReviewedCard(card, quality, now))
    /\ last' = [op |-> "markCardReviewed",
                args |-> [cardId |-> cardId, quality |-> quality],
                pre |-> db, at |-> now, ret |-> "ok"]
    /\ UNCHANGED <<now, mem, run>>

\* time passes
Tick ==
    /\ now < MaxNow
    /\ now' = now + 1
    /\ UNCHANGED <<db, last, mem, run>>

\* no call is in progress
NoRuns == EmptyObj

NoCall == [op |-> "none", args |-> EmptyObj, pre |-> EmptyDB, at |-> 0, ret |-> "ok"]

ReviewStores ==
    { [EmptyDB EXCEPT !.flashcards =
          [id \in S |-> NewCard(id, "A1", "vocabulary", "B1", <<"a">>, <<"b">>, 0)]]
      : S \in SUBSET ReviewCardIds }

InitReview ==
    /\ db \in ReviewStores
    /\ now = 0
    /\ last = NoCall
    /\ mem = Loaded(db)
    /\ run = NoRuns

NextReview ==
    \/ Tick
    \/ \E cardId \in ReviewCardIds \cup {UnknownCardId}, quality \in Qualities :
          markCardReviewed(cardId, quality)

SpecReview == InitReview /\ [][NextReview]_vars

-----------------------------------------------------------------------------
(* Text: String.prototype.toLowerCase, includes and localeCompare *)

Letters == {"a", "b", "A", "B", "1"}

LowerCh(c) == CASE c = "A" -> "a" [] c = "B" -> "b" [] OTHER -> c

toLowerCase(s) == [i \in 1..Len(s) |-> LowerCh(s[i])]

\* s.includes(q): q occurs in s as a contiguous run of letters
includes(s, q) ==
    \E i \in 0..(Len(s) - Len(q)) : \A j \in 1..Len(q) : s[i + j] = q[j]

\* collation weights of a letter: digits before letters, "a" before "b"
\* (primary); on equal letters the lower case one first (tertiary)
Primary(c) == CASE LowerCh(c) = "a" -> 1 [] LowerCh(c) = "b" -> 2 [] OTHER -> 0

Tertiary(c) == IF LowerCh(c) = c THEN 0 ELSE 1

\* -1, 0 or 1: the order of two sequences of weights
RECURSIVE LexCmp(_, _)
LexCmp(u, v) ==
    IF u = <<>> /\ v = <<>> THEN 0
    ELSE IF u = <<>> THEN -1
    ELSE IF v = <<>> THEN 1
    ELSE IF Head(u) < Head(v) THEN -1
    ELSE IF Head(u) > Head(v) THEN 1
    ELSE LexCmp(Tail(u), Tail(v))

\* a.localeCompare(b)
localeCompare(a, b) ==
    LET p == LexCmp([i \in 1..Len(a) |-> Primary(a[i])], [i \in 1..Len(b) |-> Primary(b[i])])
    IN IF p # 0 THEN p
       ELSE LexCmp([i \in 1..Len(a) |-> Tertiary(a[i])], [i \in 1..Len(b) |-> Tertiary(b[i])])

-----------------------------------------------------------------------------
(* Arrays: slice and the stable sort of Array.prototype.sort *)

Min(a, b) == IF a < b THEN a ELSE b

Max(a, b) == IF a > b THEN a ELSE b

\* arr.slice(start, end): negative positions count from the end
slice(arr, start, end) ==
    LET len == Len(arr)
        from == IF start < 0 THEN Max(len + start, 0) ELSE Min(start, len)
        to == IF end < 0 THEN Max(len + end, 0) ELSE Min(end, len)
    IN SubSeq(arr, from + 1, to)

\* the records of the object store whose keys are in S, in ascending key order
RECURSIVE InKeyOrder(_, _)
InKeyOrder(store, S) ==
    IF S = {} THEN <<>>
    ELSE LET k == CHOOSE x \in S : \A y \in S : x <= y
         IN <<store[k]>> \o InKeyOrder(store, S \ {k})

\* c placed behind every card of the sorted array that does not sort after it
RECURSIVE InsertByWord(_, _)
InsertByWord(sorted, c) ==
    IF sorted = <<>> THEN <<c>>
    ELSE LET n == Len(sorted) IN
         IF localeCompare(sorted[n].word, c.word) <= 0 THEN Append(sorted, c)
         ELSE Append(InsertByWord(SubSeq(sorted, 1, n - 1), c), sorted[n])

RECURSIVE SortedPrefix(_, _)
SortedPrefix(arr, n) ==
    IF n = 0 THEN <<>> ELSE InsertByWord(SortedPrefix(arr, n - 1), arr[n])

KeepSeedOrder(arr) == arr

\* results.sort((a, b) => a.word.localeCompare(b.word))
sortByWord(arr) == SortedPrefix(arr, Len(arr))

-----------------------------------------------------------------------------
(* The query engine: queryFlashcards *)

\* db.getAll('flashcards')
getAllFlashcards(d) == InKeyOrder(d.flashcards, DOMAIN d.flashcards)

\* db.getAllFromIndex('flashcards', index, key): index is the indexed property
getAllFromIndex(d, index, key) ==
    InKeyOrder(d.flashcards, {k \in DOMAIN d.flashcards : d.flashcards[k][index] = key})

\* criteria.x && criteria.x !== 'all' for the articleId, type and level criteria
Specified(criteria, x) ==
    x \in DOMAIN criteria /\ criteria[x] # "" /\ criteria[x] # "all"

\* criteria.search is truthy
HasSearch(criteria) == "search" \in DOMAIN criteria /\ criteria.search # <<>>

\* a number property that is truthy
HasNumber(criteria, x) == x \in DOMAIN criteria /\ criteria[x] # 0

SeedCandidates(d, criteria) ==
    IF Specified(criteria, "articleId") THEN getAllFromIndex(d, "articleId", criteria.articleId)
    ELSE IF Specified(criteria, "type") THEN getAllFromIndex(d, "type", criteria.type)
    ELSE IF Specified(criteria, "level") THEN getAllFromIndex(d, "level", criteria.level)
    ELSE getAllFlashcards(d)

\* the search test of the residual filter
SearchMatches(c, search) ==
    LET q == toLowerCase(search)
    IN includes(toLowerCase(c.word), q) \/ includes(c.persianTranslation, q)

MatchesArticleOnly(c, criteria) ==
    ~ (Specified(criteria, "articleId") /\ c.articleId # criteria.articleId)

\* the callback of results.filter
Matches(c, criteria) ==
    /\ ~ (Specified(criteria, "articleId") /\ c.articleId # criteria.articleId)
    /\ ~ (Specified(criteria, "type") /\ c.type # criteria.type)
    /\ ~ (Specified(criteria, "level") /\ c.level # criteria.level)
    /\ ~ (HasSearch(criteria) /\ ~ SearchMatches(c, criteria.search))

PageEndOneMore(criteria, start, len) ==
    IF HasNumber(criteria, "limit") THEN start + criteria.limit + 1 ELSE len

PageEndOfGivenLimit(criteria, start, len) ==
    IF "limit" \in DOMAIN criteria THEN start + criteria.limit ELSE len

\* const end = criteria.limit ? start + criteria.limit : results.length
PageEnd(criteria, start, len) ==
    IF HasNumber(criteria, "limit") THEN start + criteria.limit ELSE len

queryFlashcards(d, criteria) ==
    LET Test(c) == Matches(c, criteria)
        results == sortByWord(SelectSeq(SeedCandidates(d, criteria), Test))
        start == IF HasNumber(criteria, "offset") THEN criteria.offset ELSE 0
    IN slice(results, start, PageEnd(criteria, start, Len(results)))

-----------------------------------------------------------------------------
(* The card library: searchFlashcards, and paging through it *)

\* the objects with at most the property key, with a value of vals
Opt(key, vals) == {EmptyObj} \cup {[k \in {key} |-> v] : v \in vals}

ArticleIds == {"A1", "A2"}

LibraryWords == {<<"a">>, <<"B">>, <<"b">>}

LibraryShapes ==
    {[articleId |-> a, type |-> t, word |-> w] :
        a \in ArticleIds, t \in {"vocabulary", "grammar"}, w \in LibraryWords}

\* the stores with flashcards 1 .. n, approved from articles at time 0
LibraryStores ==
    UNION { { [EmptyDB EXCEPT !.flashcards =
                 [id \in 1..n |-> NewCard(id, f[id].articleId, f[id].type, "B1",
                                          f[id].word, <<"1">>, 0)]]
              : f \in [1..n -> LibraryShapes] }
            : n \in 0..MaxCards }

\* { articleId: A } with type and level absent or 'all'
ByArticleCriteria ==
    {Spread(Spread(a, t), l) :
        a \in {[articleId |-> x] : x \in ArticleIds \cup {"A3"}},
        t \in Opt("type", {"all"}),
        l \in Opt("level", {"all"})}

\* the filter sets of the card library page
LibraryFilters ==
    {Spread(Spread(a, t), q) :
        a \in {[articleId |-> x] : x \in {"all", "A1"}},
        t \in Opt("type", {"grammar"}),
        q \in Opt("search", {<<"b">>})}

searchFlashcards(filters) ==
    /\ last' = [op |-> "queryFlashcards", args |-> filters, pre |-> db, at |-> now,
                ret |-> queryFlashcards(db, filters)]
    /\ UNCHANGED <<db, now, mem, run>>

\* the pages at offsets k * L, (k + 1) * L, ... up to the first page shorter than L
RECURSIVE PagesFrom(_, _, _, _)
PagesFrom(d, filters, L, k) ==
    LET page == queryFlashcards(d, Spread(filters, [limit |-> L, offset |-> k * L]))
    IN IF Len(page) < L THEN page ELSE page \o PagesFrom(d, filters, L, k + 1)

browsePages(filters, L) ==
    /\ last' = [op |-> "pages", args |-> Spread(filters, [limit |-> L]), pre |-> db,
                at |-> now, ret |-> PagesFrom(db, filters, L, 0)]
    /\ UNCHANGED <<db, now, mem, run>>

InitLibrary ==
    /\ db \in LibraryStores
    /\ now = 0
    /\ last = NoCall
    /\ mem = Loaded(db)
    /\ run = NoRuns

\* one read of the library per behaviour: a read leaves the store as it is
NextLibrary ==
    /\ last = NoCall
    /\ \/ \E filters \in ByArticleCriteria : searchFlashcards(filters)
       \/ \E filters \in LibraryFilters, L \in 1..MaxPageSize : browsePages(filters, L)

SpecLibrary == InitLibrary /\ [][NextLibrary]_vars

-----------------------------------------------------------------------------
(* The search box of the card library *)

SearchShapes ==
    {[word |-> w, persianTranslation |-> t] :
        w \in {<<"a">>, <<"A", "b">>},
        t \in {<<"1">>, <<"B">>, <<"b", "1">>}}

SearchStores ==
    UNION { { [EmptyDB EXCEPT !.flashcards =
                 [id \in 1..n |-> NewCard(id, "A1", "vocabulary", "B1",
                                          f[id].word, f[id].persianTranslation, 0)]]
              : f \in [1..n -> SearchShapes] }
            : n \in 0..MaxCards }

SearchTexts == {<<>>, <<"a">>, <<"b">>, <<"B">>, <<"1">>, <<"a", "B">>}

SearchCriteria ==
    {Spread(a, q) : a \in Opt("articleId", {"all"}), q \in {[search |-> x] : x \in SearchTexts}}

InitSearch ==
    /\ db \in SearchStores
    /\ now = 0
    /\ last = NoCall
    /\ mem = Loaded(db)
    /\ run = NoRuns

NextSearch ==
    /\ last = NoCall
    /\ \E filters \in SearchCriteria : searchFlashcards(filters)

SpecSearch == InitSearch /\ [][NextSearch]_vars

-----------------------------------------------------------------------------
(* Review sessions: getDueFlashcards, getNewFlashcards, getCardsForSession *)

\* the keys of S in ascending order of (nextReview, primary key): the by-review index
RECURSIVE InReviewOrder(_, _)
InReviewOrder(store, S) ==
    IF S = {} THEN <<>>
    ELSE LET k == CHOOSE x \in S : \A y \in S :
                      \/ store[x].nextReview < store[y].nextReview
                      \/ store[x].nextReview = store[y].nextReview /\ x <= y
         IN <<store[k]>> \o InReviewOrder(store, S \ {k})

DueRangeStrict(d, t) == {k \in DOMAIN d.flashcards : d.flashcards[k].nextReview < t}

DueRangeOpenEnded(d, t) == {k \in DOMAIN d.flashcards : d.flashcards[k].nextReview <= t + 1000}

\* IDBKeyRange.upperBound(now) on the by-review index
DueRange(d, t) == {k \in DOMAIN d.flashcards : d.flashcards[k].nextReview <= t}

getDueFlashcards(d, t, limit) ==
    slice(InReviewOrder(d.flashcards, DueRange(d, t)), 0, limit)

\* the key 0 of the by-stage index
NewRange(d) == {k \in DOMAIN d.flashcards : d.flashcards[k].stage = 0}

getNewFlashcards(d, limit) == slice(InKeyOrder(d.flashcards, NewRange(d)), 0, limit)

\* the default of the parameter limit of getCardsForSession
DefaultLimit == 50

SessionCardsFilteredFirst(d, t, mode, filters, limit) ==
    LET cards == IF mode = "due" THEN InReviewOrder(d.flashcards, DueRange(d, t))
                 ELSE IF mode = "new" THEN InKeyOrder(d.flashcards, NewRange(d))
                 ELSE queryFlashcards(d, filters)
        Ok(c) == /\ Specified(filters, "type") => c.type = filters.type
                 /\ Specified(filters, "level") => c.level = filters.level
                 /\ Specified(filters, "articleId") => c.articleId = filters.articleId
    IN slice(SelectSeq(cards, Ok), 0, limit)

\* the cards of a session before the shuffle
SessionCards(d, t, mode, filters, limit) ==
    LET cards == IF mode = "due" THEN getDueFlashcards(d, t, limit)
                 ELSE IF mode = "new" THEN getNewFlashcards(d, limit)
                 ELSE queryFlashcards(d, Spread(filters, [limit |-> limit]))
        TypeOk(c) == Specified(filters, "type") => c.type = filters.type
        LevelOk(c) == Specified(filters, "level") => c.level = filters.level
        ArticleOk(c) == Specified(filters, "articleId") => c.articleId = filters.articleId
    IN SelectSeq(SelectSeq(SelectSeq(cards, TypeOk), LevelOk), ArticleOk)

ShufflesWithRepeats(cards) ==
    LET n == Len(cards) IN { [i \in 1..n |-> cards[p[i]]] : p \in [1..n -> 1..n] }

\* cards.sort(() => Math.random() - 0.5): the cards in some order
Shuffles(cards) ==
    LET n == Len(cards) IN
    { [i \in 1..n |-> cards[p[i]]] :
        p \in {q \in [1..n -> 1..n] : \A i, j \in 1..n : q[i] = q[j] => i = j} }

\* args.limit is absent when the caller leaves the parameter out
getCardsForSession(args) ==
    LET limit == IF "limit" \in DOMAIN args THEN args.limit ELSE DefaultLimit IN
    /\ \E ret \in Shuffles(SessionCards(db, now, args.mode, args.filters, limit)) :
          last' = [op |-> "getCardsForSession", args |-> args, pre |-> db, at |-> now,
                   ret |-> ret]
    /\ UNCHANGED <<db, now, mem, run>>

\* the time of the session
SessionTime == 5000

\* nextReview and stage of the cards: overdue by 5000 ms and by 1000 ms, due
\* at this very millisecond, due in 1000 ms
Schedules ==
    {[nextReview |-> SessionTime - 5000, stage |-> 2],
     [nextReview |-> SessionTime - 1000, stage |-> 0],
     [nextReview |-> SessionTime, stage |-> 1],
     [nextReview |-> SessionTime + 1000, stage |-> 1]}

Sources ==
    {[articleId |-> "A1", type |-> "vocabulary"],
     [articleId |-> "A1", type |-> "grammar"],
     [articleId |-> "A2", type |-> "vocabulary"]}

SessionStores ==
    UNION { { [EmptyDB EXCEPT !.flashcards =
                 [id \in 1..n |->
                     [NewCard(id, f[id][2].articleId, f[id][2].type, "B1", <<"a">>, <<"1">>, 0)
                        EXCEPT !.nextReview = f[id][1].nextReview,
                               !.stage = f[id][1].stage]]]
              : f \in [1..n -> Schedules \X Sources] }
            : n \in 0..MaxCards }

SessionFilters ==
    {EmptyObj,
     [articleId |-> "A1"],
     [articleId |-> "all", type |-> "grammar", level |-> "all"],
     [articleId |-> "A1", type |-> "vocabulary", level |-> "B1"]}

SessionLimits == {1, 2}

SessionArgs ==
    {Spread([mode |-> m, filters |-> f], l) :
        m \in {"due", "new"}, f \in SessionFilters, l \in Opt("limit", SessionLimits)}

InitSession ==
    /\ db \in SessionStores
    /\ now = SessionTime
    /\ last = NoCall
    /\ mem = Loaded(db)
    /\ run = NoRuns

NextSession ==
    /\ last = NoCall
    /\ \E args \in SessionArgs : getCardsForSession(args)

SpecSession == InitSession /\ [][NextSession]_vars

-----------------------------------------------------------------------------
(* Backup and restore: exportDatabase, importDatabase *)

\* the object stores importDatabase fills from lists, in the order of its loops
ListKinds == <<"articles", "segments", "flashcards", "collections">>

\* store.getAll()
getAll(d, kind) == InKeyOrder(d[kind], DOMAIN d[kind])

exportDatabaseWithoutArticles(d, t) ==
    Spread([version |-> 1, timestamp |-> t,
            articles |-> <<>>,
            segments |-> getAll(d, "segments"),
            flashcards |-> getAll(d, "flashcards"),
            collections |-> getAll(d, "collections")],
           IF "config" \in DOMAIN d.settings THEN [settings |-> d.settings["config"]]
           ELSE EmptyObj)

\* the document of exportDatabase; settings is undefined without a 'config' record
exportDatabase(d, t) ==
    Spread([version |-> 1, timestamp |-> t,
            articles |-> getAll(d, "articles"),
            segments |-> getAll(d, "segments"),
            flashcards |-> getAll(d, "flashcards"),
            collections |-> getAll(d, "collections")],
           IF "config" \in DOMAIN d.settings THEN [settings |-> d.settings["config"]]
           ELSE EmptyObj)

\* the put requests of importDatabase, in the order the code issues them:
\* data.articles, data.segments, data.flashcards, data.collections, then
\* { ...data.settings, id: 'config' }
RECURSIVE ListPuts(_, _)
ListPuts(data, i) ==
    IF i > Len(ListKinds) THEN <<>>
    ELSE LET kind == ListKinds[i]
             items == IF kind \in DOMAIN data THEN data[kind] ELSE <<>>
         IN [j \in 1..Len(items) |-> [kind |-> kind, item |-> items[j]]]
            \o ListPuts(data, i + 1)

SettingsPutKeepingId(data) ==
    IF "settings" \in DOMAIN data
    THEN <<[kind |-> "settings", item |-> data.settings]>>
    ELSE <<>>

SettingsPut(data) ==
    IF "settings" \in DOMAIN data
    THEN <<[kind |-> "settings", item |-> Spread(data.settings, [id |-> "config"])]>>
    ELSE <<>>

ImportPuts(data) == ListPuts(data, 1) \o SettingsPut(data)

\* store.put(item) throws a DataError when the key path 'id' yields no key
HasKey(item) == "id" \in DOMAIN item

\* tx.objectStore(kind).put(item) inside the transaction
TxPut(d, kind, item) == StorePut(d, kind, item)

RECURSIVE RunImportKeepingWrites(_, _, _, _, _)
RunImportKeepingWrites(d0, d, puts, i, fault) ==
    IF i > Len(puts)
    THEN IF fault = i THEN [db |-> d, ret |-> "aborted"] ELSE [db |-> d, ret |-> "ok"]
    ELSE IF ~ HasKey(puts[i].item) THEN [db |-> d, ret |-> "threw"]
    ELSE IF fault = i THEN [db |-> d, ret |-> "aborted"]
    ELSE RunImportKeepingWrites(d0, TxPut(d, puts[i].kind, puts[i].item), puts, i + 1, fault)

\* The transaction of importDatabase from its i-th put on: d0 is the store
\* when the transaction began, d what it has written so far.  fault = i: the
\* storage engine fails the i-th request (or, past the last put, the commit),
\* which aborts the transaction.  A put that throws rejects importDatabase and
\* aborts nothing: the transaction commits the requests made before it.
RECURSIVE RunImport(_, _, _, _, _)
RunImport(d0, d, puts, i, fault) ==
    IF i > Len(puts)
    THEN IF fault = i THEN [db |-> d0, ret |-> "aborted"] ELSE [db |-> d, ret |-> "ok"]
    ELSE IF ~ HasKey(puts[i].item) THEN [db |-> d, ret |-> "threw"]
    ELSE IF fault = i THEN [db |-> d0, ret |-> "aborted"]
    ELSE RunImport(d0, TxPut(d, puts[i].kind, puts[i].item), puts, i + 1, fault)

\* fault = 0: the storage engine fails nothing
importDatabaseResult(d, data, fault) == RunImport(d, d, ImportPuts(data), 1, fault)

importDatabase(data, fault) ==
    LET r == importDatabaseResult(db, data, fault) IN
    /\ db' = r.db
    /\ last' = [op |-> "importDatabase", args |-> data, pre |-> db, at |-> now,
                ret |-> r.ret]
    /\ UNCHANGED <<now, mem, run>>

\* the backup of this store restored into the empty store of a new
\* installation; this store stays as it is
restoreOnEmptyStore ==
    LET data == exportDatabase(db, now) IN
    /\ last' = [op |-> "restoreOnEmptyStore", args |-> data, pre |-> db, at |-> now,
                ret |-> importDatabaseResult(EmptyDB, data, 0)]
    /\ UNCHANGED <<db, now, mem, run>>

\* records of the four listed kinds; the word of a flashcard carries its version
VersionWord(v) == CASE v = "old" -> <<"a">> [] v = "new" -> <<"b">> [] OTHER -> <<"B">>

KindRecord(kind, id, v) ==
    CASE kind = "articles" -> [id |-> id, title |-> v, processedAt |-> 0]
      [] kind = "segments" -> [id |-> id, articleId |-> 1, index |-> 0, content |-> v]
      [] kind = "flashcards" ->
            NewCard(id, "A1", "vocabulary", "B1", VersionWord(v), <<"1">>, 0)
      [] OTHER -> [id |-> id, name |-> v]

\* the optional property a stored record carries and a document record does not
OptionalOf(kind) ==
    CASE kind = "articles" -> [collectionId |-> 1]
      [] kind = "segments" -> [persianTranslation |-> "p"]
      [] kind = "flashcards" -> [phonetic |-> "f"]
      [] OTHER -> [description |-> "d"]

WithoutId(rec) == [k \in (DOMAIN rec) \ {"id"} |-> rec[k]]

StoredSettings == [id |-> "config", analysisModel |-> "old", ttsEngine |-> "gemini"]

\* the stores before an import: any of these records
SeedRecords ==
    {[kind |-> ListKinds[i], item |-> Spread(KindRecord(ListKinds[i], 1, "old"), OptionalOf(ListKinds[i]))]
        : i \in 1..Len(ListKinds)}
    \cup {[kind |-> "flashcards", item |-> KindRecord("flashcards", 2, "old")],
          [kind |-> "settings", item |-> StoredSettings]}

RECURSIVE PutAll(_, _)
PutAll(d, S) ==
    IF S = {} THEN d
    ELSE LET p == CHOOSE x \in S : TRUE
         IN PutAll(StorePut(d, p.kind, p.item), S \ {p})

BackupStores == {PutAll(EmptyDB, S) : S \in SUBSET SeedRecords}

\* the records a document may list: ids 1 and 2, two versions of id 1, no id
DocRecords ==
    UNION { {[kind |-> kind, item |-> r] :
                r \in {KindRecord(kind, 1, "new"), KindRecord(kind, 1, "newer"),
                       KindRecord(kind, 2, "new"), WithoutId(KindRecord(kind, 2, "new"))}}
            : kind \in {ListKinds[i] : i \in 1..Len(ListKinds)} }

KindRank(kind) == CHOOSE i \in 1..Len(ListKinds) : ListKinds[i] = kind

DocSettings ==
    {[id |-> "config", analysisModel |-> "new"],
     [id |-> "other", analysisModel |-> "new"],
     [analysisModel |-> "new"]}

\* the document that lists the records recs, kind by kind
DocumentOf(recs) ==
    LET kinds == {recs[i].kind : i \in 1..Len(recs)}
        Of(kind) == LET Is(p) == p.kind = kind
                        sel == SelectSeq(recs, Is)
                    IN [j \in 1..Len(sel) |-> sel[j].item]
    IN [kind \in kinds |-> Of(kind)]

Documents ==
    {Spread(DocumentOf(recs), s) :
        recs \in {q \in UNION {[1..n -> DocRecords] : n \in 0..MaxDocRecords} :
                     \A i, j \in 1..Len(q) : i < j => KindRank(q[i].kind) <= KindRank(q[j].kind)},
        s \in {EmptyObj} \cup {[settings |-> x] : x \in DocSettings}}

InitBackup ==
    /\ db \in BackupStores
    /\ now = 0
    /\ last = NoCall
    /\ mem = Loaded(db)
    /\ run = NoRuns

NextBackup ==
    /\ last = NoCall
    /\ \/ \E data \in Documents, fault \in 0..(MaxDocRecords + 2) : importDatabase(data, fault)
       \/ restoreOnEmptyStore

SpecBackup == InitBackup /\ [][NextBackup]_vars

-----------------------------------------------------------------------------
(* Import of a backup file: importUserData *)

\* data[kind] when the file gives a string for it: for..of yields its
\* characters, which have no key path 'id'
TextValue == <<[character |-> "x"]>>

FileDocuments ==
    Documents \cup
    {Spread(doc, [flashcards |-> TextValue]) :
        doc \in {EmptyObj} \cup
                {DocumentOf(<<r>>) : r \in {q \in DocRecords : q.kind \in {"articles", "segments"}}}}

\* file.text() of the chosen file: JSON.parse throws a SyntaxError on it, or
\* gives the value it encodes
UserFiles == {[parses |-> FALSE]} \cup {[parses |-> TRUE, value |-> data] : data \in FileDocuments}

importUserData(file, fault) ==
    LET r == IF file.parses THEN importDatabaseResult(db, file.value, fault)
             ELSE [db |-> db, ret |-> "threw"]
    IN /\ db' = r.db
       /\ mem' = IF r.ret = "ok" THEN Reloaded(mem, r.db) ELSE mem
       /\ last' = [op |-> "importUserData", args |-> file, pre |-> db, at |-> now,
                   ret |-> IF r.ret = "ok" THEN "Import successful!"
                           ELSE "Import failed. Invalid file format."]
       /\ UNCHANGED <<now, run>>

InitImportFile ==
    /\ db \in BackupStores
    /\ now = 0
    /\ last = NoCall
    /\ mem = Loaded(db)
    /\ run = NoRuns

NextImportFile ==
    /\ last = NoCall
    /\ \E file \in UserFiles, fault \in 0..(MaxDocRecords + 2) : importUserData(file, fault)

SpecImportFile == InitImportFile /\ [][NextImportFile]_vars

-----------------------------------------------------------------------------
(* Articles and their segments: handleAnalyze, addArticle *)

\* one entry of the analysis the AI returns, by its lemma
Analysis(lemma) ==
    [type |-> "vocabulary", word |-> <<"a">>, lemma |-> lemma, level |-> "B2",
     persianTranslation |-> <<"1">>, context |-> "c"]

\* the segment handleAnalyze makes of the index-th part of the text
NewSegment(id, index, content, analysis) ==
    [id |-> id, index |-> index, title |-> <<"Part", index + 1>>, content |-> content,
     analyzedWords |-> IF index = 0 THEN analysis ELSE <<>>,
     approvedWordIds |-> <<>>, isAnalyzed |-> (index = 0)]

\* { ...s, content: '', analyzedWords: [] }
Lightweight(s) == [s EXCEPT !.content = "", !.analyzedWords = <<>>]

\* newArticle of AppContext.addArticle at time t, without a collection
NewArticle(id, title, segments, t) ==
    [id |-> id, title |-> title, segments |-> segments, processedAt |-> t]

lightweightArticle(article) ==
    [article EXCEPT !.segments = [i \in 1..Len(article.segments) |-> Lightweight(article.segments[i])]]

\* the put requests of dbService.addArticle, in the order the code issues them
addArticlePuts(article, segments) ==
    <<[kind |-> "articles", item |-> lightweightArticle(article)]>>
    \o [i \in 1..Len(segments) |->
            [kind |-> "segments", item |-> Spread(segments[i], [articleId |-> article.id])]]

\* the put requests of dbService.addFlashcards
addFlashcardsPuts(cards) == [i \in 1..Len(cards) |-> [kind |-> "flashcards", item |-> cards[i]]]

-----------------------------------------------------------------------------
(* Transactions in progress: exportDatabase interleaved with write transactions *)

ExportScopeArticlesOnly == {"articles"}

\* the scope of the readonly transaction of exportDatabase
ExportScope == Kinds

\* the scope of the readwrite transaction of each writing call
WriteScope(op) ==
    CASE op = "addArticle" -> {"articles", "segments"}
      [] op = "addFlashcards" -> {"flashcards"}
      [] OTHER -> Kinds

Writers == {"addArticle", "addFlashcards", "importDatabase"}

\* the arguments of the three writing calls
ConcurrentArticle ==
    NewArticle(4, "t", <<NewSegment(41, 0, "p", <<Analysis("a")>>), NewSegment(42, 1, "q", <<>>)>>, 0)

ConcurrentCards == <<KindRecord("flashcards", 5, "new"), KindRecord("flashcards", 6, "new")>>

ConcurrentDocument ==
    Spread(DocumentOf(<<[kind |-> "articles", item |-> KindRecord("articles", 3, "new")],
                        [kind |-> "segments", item |-> KindRecord("segments", 3, "new")],
                        [kind |-> "flashcards", item |-> KindRecord("flashcards", 3, "new")]>>),
           [settings |-> [analysisModel |-> "new"]])

WritePuts(op) ==
    CASE op = "addArticle" -> addArticlePuts(ConcurrentArticle, ConcurrentArticle.segments)
      [] op = "addFlashcards" -> addFlashcardsPuts(ConcurrentCards)
      [] OTHER -> ImportPuts(ConcurrentDocument)

ScopeOf(call) == IF call = "exportDatabase" THEN ExportScope ELSE WriteScope(call)

\* a transaction starts once no live transaction of an overlapping scope is
\* left (one of the two is always readwrite here)
CanStart(call) ==
    \A c \in (DOMAIN run) \ {call} : run[c].pc = "live" => ScopeOf(c) \cap ScopeOf(call) = {}

Idle == [pc |-> "idle", i |-> 0, snap |-> EmptyDB, at |-> 0, data |-> EmptyObj]

\* db.transaction(scope, 'readwrite') of a writing call
BeginWrite(w) ==
    /\ run[w].pc = "idle"
    /\ CanStart(w)
    /\ run' = [run EXCEPT ![w] = [Idle EXCEPT !.pc = "live", !.i = 1, !.snap = db]]
    /\ UNCHANGED <<db, now, last, mem>>

\* await tx.objectStore(kind).put(item): the next put of the call
PutNext(w) ==
    /\ run[w].pc = "live"
    /\ run[w].i <= Len(WritePuts(w))
    /\ db' = TxPut(db, WritePuts(w)[run[w].i].kind, WritePuts(w)[run[w].i].item)
    /\ run' = [run EXCEPT ![w].i = @ + 1]
    /\ UNCHANGED <<now, last, mem>>

\* await tx.done
Commit(w) ==
    /\ run[w].pc = "live"
    /\ run[w].i > Len(WritePuts(w))
    /\ run' = [run EXCEPT ![w].pc = "done"]
    /\ UNCHANGED <<db, now, last, mem>>

\* the storage engine fails a request or the commit: the transaction aborts
\* and the stores of its scope are as when it started
AbortWrite(w) ==
    /\ run[w].pc = "live"
    /\ db' = [k \in Kinds |-> IF k \in WriteScope(w) THEN run[w].snap[k] ELSE db[k]]
    /\ run' = [run EXCEPT ![w].pc = "aborted"]
    /\ UNCHANGED <<now, last, mem>>

\* the reads of exportDatabase, in the order the code awaits them
ExportReads == <<"articles", "segments", "flashcards", "settings", "collections">>

\* tx.objectStore(kind).getAll(), and tx.objectStore('settings').get('config')
ExportRead(d, kind) ==
    IF kind # "settings" THEN [k \in {kind} |-> getAll(d, kind)]
    ELSE IF "config" \in DOMAIN d.settings THEN [settings |-> d.settings["config"]]
    ELSE EmptyObj

\* db.transaction(all five, 'readonly'); version: 1, timestamp: Date.now()
exportBegin ==
    /\ run["exportDatabase"].pc = "idle"
    /\ CanStart("exportDatabase")
    /\ run' = [run EXCEPT !["exportDatabase"] =
                  [pc |-> "live", i |-> 1, snap |-> db, at |-> now,
                   data |-> [version |-> 1, timestamp |-> now]]]
    /\ UNCHANGED <<db, now, last, mem>>

\* the next awaited read; a store outside the transaction's scope is not
\* protected by it
exportReadNext ==
    LET e == run["exportDatabase"] IN
    /\ e.pc = "live"
    /\ e.i <= Len(ExportReads)
    /\ run' = [run EXCEPT !["exportDatabase"] =
                  [e EXCEPT !.i = @ + 1, !.data = Spread(@, ExportRead(db, ExportReads[e.i]))]]
    /\ UNCHANGED <<db, now, last, mem>>

\* await tx.done; return data
exportDone ==
    LET e == run["exportDatabase"] IN
    /\ e.pc = "live"
    /\ e.i > Len(ExportReads)
    /\ run' = [run EXCEPT !["exportDatabase"].pc = "done"]
    /\ last' = [op |-> "exportDatabase", args |-> EmptyObj, pre |-> e.snap, at |-> e.at,
                ret |-> e.data]
    /\ UNCHANGED <<db, now, mem>>

InitExport ==
    /\ db \in {EmptyDB, PutAll(EmptyDB, SeedRecords)}
    /\ now \in 0..1
    /\ last = NoCall
    /\ mem = Loaded(db)
    /\ run = [c \in Writers \cup {"exportDatabase"} |-> Idle]

NextExport ==
    \/ \E w \in Writers : BeginWrite(w)
    \/ \E w \in Writers : PutNext(w)
    \/ \E w \in Writers : Commit(w)
    \/ \E w \in Writers : AbortWrite(w)
    \/ exportBegin
    \/ exportReadNext
    \/ exportDone

SpecExport == InitExport /\ [][NextExport]_vars

-----------------------------------------------------------------------------
(* The article library: handleAnalyze and addArticle, one article after another *)

\* up to MaxArticles articles are added
MaxArticles == 2

\* the texts an article is split into
RawSegments == {<<"p">>, <<"p", "q">>}

\* the analysis of the first part
FirstAnalyses == {<<>>, <<Analysis("a"), Analysis("b")>>}

\* nanoid(): the number of the next article; its segments are numbered after it
NextArticleId(d) == Cardinality(DOMAIN d.articles) + 1

SegmentId(articleId, index) == 10 * articleId + index

\* segments of handleAnalyze for the article that will get the id articleId
ImportedSegments(articleId, rawSegments, analysis) ==
    [i \in 1..Len(rawSegments) |->
        NewSegment(SegmentId(articleId, i - 1), i - 1, rawSegments[i], analysis)]

\* dbService.addArticle: the transaction of its puts, which all carry an id;
\* it runs like the one of importDatabase (puts awaited in turn, then tx.done)
addArticleResult(d, article, segments, fault) ==
    RunImport(d, d, addArticlePuts(article, segments), 1, fault)

\* AppContext.addArticle on the segments of handleAnalyze; when the
\* transaction fails the call rejects before setArticles
addArticle(title, rawSegments, analysis, fault) ==
    LET id == NextArticleId(db)
        segments == ImportedSegments(id, rawSegments, analysis)
        newArticle == NewArticle(id, title, segments, now)
        r == addArticleResult(db, newArticle, segments, fault)
    IN /\ id <= MaxArticles
       /\ db' = r.db
       /\ mem' = IF r.ret = "ok"
                 THEN [mem EXCEPT !.articles = <<lightweightArticle(newArticle)>> \o @]
                 ELSE mem
       /\ last' = [op |-> "addArticle",
                   args |-> [title |-> title, segments |-> segments, id |-> id, fault |-> fault],
                   pre |-> db, at |-> now, ret |-> r.ret]
       /\ UNCHANGED <<now, run>>

InitArticles ==
    /\ db = EmptyDB
    /\ now = 0
    /\ last = NoCall
    /\ mem = Loaded(db)
    /\ run = NoRuns

NextArticles ==
    \/ Tick
    \/ \E rawSegments \in RawSegments, analysis \in FirstAnalyses, fault \in 0..4 :
          addArticle("t", rawSegments, analysis, fault)

SpecArticles == InitArticles /\ [][NextArticles]_vars

-----------------------------------------------------------------------------
(* The reader: the segment of an article, its analysis and its approved words *)

\* the reader makes flashcards while the store holds fewer than StudyCards
StudyCards == 2

\* db.getAllFromIndex('segments', 'by-article', articleId)
segmentsByArticle(d, articleId) ==
    InKeyOrder(d.segments, {k \in DOMAIN d.segments : d.segments[k].articleId = articleId})

getSegmentFirstOfArticle(d, articleId, index) ==
    LET found == segmentsByArticle(d, articleId)
    IN IF found = <<>> THEN Undefined ELSE found[1]

\* segments.find(s => s.index === index): the first one in index order, or undefined
getSegment(d, articleId, index) ==
    LET Is(s) == s.index = index
        found == SelectSeq(segmentsByArticle(d, articleId), Is)
    IN IF found = <<>> THEN Undefined ELSE found[1]

getArticle(d, id) == StoreGet(d, "articles", id)

updateSegment(d, segment) == StorePut(d, "segments", segment)

\* the elements of a sequence
Range(seq) == {seq[i] : i \in 1..Len(seq)}

\* Array.prototype.includes
ArrayIncludes(arr, x) == \E i \in 1..Len(arr) : arr[i] = x

\* nanoid() for a flashcard: a number above every stored one, then counting up
NextCardId(d) ==
    IF DOMAIN d.flashcards = {} THEN 1
    ELSE (CHOOSE x \in DOMAIN d.flashcards : \A y \in DOMAIN d.flashcards : y <= x) + 1

\* { ...w, id: nanoid(), articleId, nextReview: Date.now(), stage: 0, createdAt: Date.now() }
CardOfAnalysis(w, id, articleId, t) ==
    Spread(w, [id |-> id, articleId |-> articleId, nextReview |-> t, stage |-> 0, createdAt |-> t])

\* newFlashcards of approveWordsForSegment
ApprovedCards(d, segment, articleId, selectedLemmas, t) ==
    LET Selected(w) == ArrayIncludes(selectedLemmas, w.lemma)
        words == SelectSeq(segment.analyzedWords, Selected)
    IN [i \in 1..Len(words) |-> CardOfAnalysis(words[i], NextCardId(d) + i - 1, articleId, t)]

\* dbService.addFlashcards without a failure of the storage engine
addFlashcards(d, cards) == RunImport(d, d, addFlashcardsPuts(cards), 1, 0).db

\* which awaited store call of a handler the storage engine fails, if any
Failures == {"none", "addFlashcards", "updateSegment"}

updateSegmentTranslation(articleId, segmentIndex, translation, fails) ==
    LET segment == getSegment(db, articleId, segmentIndex) IN
    /\ fails \in {"none", "updateSegment"}
    /\ db' = IF segment = Undefined \/ fails = "updateSegment" THEN db
             ELSE updateSegment(db, Spread(segment, [persianTranslation |-> translation]))
    /\ last' = [op |-> "updateSegmentTranslation",
                args |-> [articleId |-> articleId, segmentIndex |-> segmentIndex],
                pre |-> db, at |-> now,
                ret |-> IF segment # Undefined /\ fails # "none" THEN "rejected" ELSE "ok"]
    /\ UNCHANGED <<now, mem, run>>

\* setArticles of updateSegmentAnalysis
MarkAnalyzed(articles, articleId, segmentIndex) ==
    [i \in 1..Len(articles) |->
        IF articles[i].id # articleId THEN articles[i]
        ELSE LET segs == articles[i].segments
             IN [articles[i] EXCEPT !.segments =
                    [j \in 1..Len(segs) |-> IF segs[j].index = segmentIndex
                                            THEN [segs[j] EXCEPT !.isAnalyzed = TRUE]
                                            ELSE segs[j]]]]

updateSegmentAnalysis(articleId, segmentIndex, analysis, fails) ==
    LET segment == getSegment(db, articleId, segmentIndex)
        done == segment # Undefined /\ fails = "none"
    IN /\ fails \in {"none", "updateSegment"}
       /\ db' = IF done
                THEN updateSegment(db, Spread(segment, [analyzedWords |-> analysis, isAnalyzed |-> TRUE]))
                ELSE db
       /\ mem' = IF done
                 THEN [mem EXCEPT !.articles = MarkAnalyzed(@, articleId, segmentIndex)]
                 ELSE mem
       /\ last' = [op |-> "updateSegmentAnalysis",
                   args |-> [articleId |-> articleId, segmentIndex |-> segmentIndex],
                   pre |-> db, at |-> now,
                   ret |-> IF segment # Undefined /\ fails # "none" THEN "rejected" ELSE "ok"]
       /\ UNCHANGED <<now, run>>

approveWordsForSegment(articleId, segmentIndex, selectedLemmas, fails) ==
    LET segment == getSegment(db, articleId, segmentIndex)
        cards == ApprovedCards(db, segment, articleId, selectedLemmas, now)
        withCards == addFlashcards(db, cards)
    IN /\ segment # Undefined =>
              Cardinality(DOMAIN db.flashcards) + Len(cards) <= StudyCards
       /\ db' = IF segment = Undefined \/ fails = "addFlashcards" THEN db
                ELSE IF fails = "updateSegment" THEN withCards
                ELSE updateSegment(withCards, Spread(segment, [approvedWordIds |-> selectedLemmas]))
       /\ last' = [op |-> "approveWordsForSegment",
                   args |-> [articleId |-> articleId, segmentIndex |-> segmentIndex,
                             selectedLemmas |-> selectedLemmas],
                   pre |-> db, at |-> now,
                   ret |-> IF segment # Undefined /\ fails # "none" THEN "rejected" ELSE "ok"]
       /\ UNCHANGED <<now, mem, run>>

addCustomWordToSegment(articleId, segmentIndex, analysis, fails) ==
    LET segment == getSegment(db, articleId, segmentIndex)
        exists == \E i \in 1..Len(segment.analyzedWords) :
                      segment.analyzedWords[i].lemma = analysis.lemma
        updatedSegment == Spread(segment,
                              [analyzedWords |-> Append(segment.analyzedWords, analysis),
                               approvedWordIds |-> Append(segment.approvedWordIds, analysis.lemma)])
        noted == IF exists THEN db ELSE updateSegment(db, updatedSegment)
        newCard == CardOfAnalysis(analysis, NextCardId(db), articleId, now)
    IN /\ segment # Undefined => Cardinality(DOMAIN db.flashcards) < StudyCards
       /\ db' = IF segment = Undefined THEN db
                ELSE IF fails = "updateSegment" /\ ~ exists THEN db
                ELSE IF fails = "addFlashcards" THEN noted
                ELSE addFlashcards(noted, <<newCard>>)
       /\ last' = [op |-> "addCustomWordToSegment",
                   args |-> [articleId |-> articleId, segmentIndex |-> segmentIndex,
                             analysis |-> analysis],
                   pre |-> db, at |-> now,
                   ret |-> IF segment = Undefined \/ fails = "none" THEN "ok"
                           ELSE IF fails = "updateSegment" /\ exists THEN "ok"
                           ELSE "rejected"]
       /\ UNCHANGED <<now, mem, run>>

-----------------------------------------------------------------------------
(* Study: cards made from a segment, reviewed, and imported *)

\* the store after addArticle of one article in two parts, the first analysed
ReaderArticle ==
    NewArticle(1, "t", ImportedSegments(1, <<"p", "q">>, <<Analysis("a"), Analysis("b")>>), 0)

ReaderStore == addArticleResult(EmptyDB, ReaderArticle, ReaderArticle.segments, 0).db

\* the lemmas WordSelection can confirm, and the word a reader can add
LemmaSelections == {<<>>, <<"a">>, <<"a", "b">>}

CustomLemmas == {"a", "c"}

\* a backup document of one flashcard, with the stage the file gives it
StageDocuments ==
    {[flashcards |-> <<Spread(CardOfAnalysis(Analysis("a"), id, 1, 0), [stage |-> stage])>>]
        : id \in 1..StudyCards, stage \in {-1, 0}}

InitStudy ==
    /\ db = ReaderStore
    /\ now = 0
    /\ last = NoCall
    /\ mem = Loaded(db)
    /\ run = NoRuns

NextStudy ==
    \/ \E selectedLemmas \in LemmaSelections, fails \in Failures :
          approveWordsForSegment(1, 0, selectedLemmas, fails)
    \/ \E lemma \in CustomLemmas, fails \in Failures :
          addCustomWordToSegment(1, 0, Analysis(lemma), fails)
    \/ \E cardId \in 1..StudyCards, quality \in {1, 4} : markCardReviewed(cardId, quality)
    \/ \E data \in StageDocuments : importDatabase(data, 0)

SpecStudy == InitStudy /\ [][NextStudy]_vars

-----------------------------------------------------------------------------
(* Segments: added with their article, updated, and imported *)

\* a backup document of one segment of the stored article
SegmentDocuments ==
    {[segments |-> <<Spread(NewSegment(id, index, "x", <<>>), [articleId |-> 1])>>]
        : id \in {10, 12}, index \in 0..1}

InitSegments ==
    /\ db = ReaderStore
    /\ now = 0
    /\ last = NoCall
    /\ mem = Loaded(db)
    /\ run = NoRuns

NextSegments ==
    \/ \E rawSegments \in RawSegments, fault \in 0..4 :
          addArticle("t", rawSegments, <<Analysis("a")>>, fault)
    \/ \E articleId \in 1..MaxArticles, segmentIndex \in 0..1, fails \in {"none", "updateSegment"} :
          updateSegmentTranslation(articleId, segmentIndex, "p", fails)
    \/ \E data \in SegmentDocuments : importDatabase(data, 0)

SpecSegments == InitSegments /\ [][NextSegments]_vars

-----------------------------------------------------------------------------
(* Reading an article: analysis, word selection and custom words of its parts *)

\* custom words are added while the part has fewer than MaxApproved approved words
MaxApproved == 2

\* the analyses the AI may return for a part
PartAnalyses == {<<Analysis("a"), Analysis("b")>>, <<Analysis("b")>>}

\* the lemmas WordSelection offers for a segment: those of its analyzedWords
LemmasOf(segment) == {segment.analyzedWords[i].lemma : i \in 1..Len(segment.analyzedWords)}

InitReader ==
    /\ db = ReaderStore
    /\ now = 0
    /\ last = NoCall
    /\ mem = Loaded(db)
    /\ run = NoRuns

NextReader ==
    \/ \E segmentIndex \in 0..1, analysis \in PartAnalyses, fails \in {"none", "updateSegment"} :
          updateSegmentAnalysis(1, segmentIndex, analysis, fails)
    \/ \E selectedLemmas \in LemmaSelections, fails \in Failures :
          /\ Range(selectedLemmas) \subseteq LemmasOf(getSegment(db, 1, 0))
          /\ approveWordsForSegment(1, 0, selectedLemmas, fails)
    \/ \E lemma \in CustomLemmas, fails \in Failures :
          /\ Len(getSegment(db, 1, 0).approvedWordIds) < MaxApproved
          /\ addCustomWordToSegment(1, 0, Analysis(lemma), fails)

SpecReader == InitReader /\ [][NextReader]_vars

-----------------------------------------------------------------------------
(* Settings: saveSettings, updateSettings, and the settings of an import *)

\* the changes the Settings page passes to updateSettings, and one that names an id
SettingsChanges ==
    {[analysisModel |-> "gemini-2.5-pro"], [ttsEngine |-> "browser"],
     [id |-> "other", ttsEngine |-> "browser"]}

\* AppContext.updateSettings: the merged settings are set in memory, then saved
updateSettings(newSettings, fails) ==
    LET updated == Spread(mem.settings, newSettings) IN
    /\ mem' = [mem EXCEPT !.settings = updated]
    /\ db' = IF fails THEN db ELSE saveSettings(db, updated)
    /\ last' = [op |-> "updateSettings", args |-> newSettings, pre |-> db, at |-> now,
                ret |-> IF fails THEN "rejected" ELSE "ok"]
    /\ UNCHANGED <<now, run>>

\* dbService.saveSettings called with a settings object
callSaveSettings(settings) ==
    /\ db' = saveSettings(db, settings)
    /\ last' = [op |-> "saveSettings", args |-> settings, pre |-> db, at |-> now, ret |-> "ok"]
    /\ UNCHANGED <<now, mem, run>>

\* backup documents that carry settings
SettingsDocuments ==
    {Spread(doc, [settings |-> x]) :
        doc \in {EmptyObj, DocumentOf(<<[kind |-> "collections", item |-> KindRecord("collections", 1, "new")]>>)},
        x \in DocSettings}

InitSettings ==
    /\ db \in {EmptyDB, PutAll(EmptyDB, {[kind |-> "settings", item |-> StoredSettings]})}
    /\ now = 0
    /\ last = NoCall
    /\ mem = Loaded(db)
    /\ run = NoRuns

NextSettings ==
    \/ \E newSettings \in SettingsChanges, fails \in BOOLEAN : updateSettings(newSettings, fails)
    \/ \E settings \in DocSettings \cup {DEFAULT_SETTINGS} : callSaveSettings(settings)
    \/ \E data \in SettingsDocuments, fault \in 0..2 : importDatabase(data, fault)

SpecSettings == InitSettings /\ [][NextSettings]_vars

-----------------------------------------------------------------------------
(* Startup: the first load of the application, and the settings after it *)

\* loadData of the AppProvider effect; a read that rejects is logged and
\* leaves the initial articles and settings
loadData(fails) ==
    /\ mem.isLoading
    /\ mem' = [(IF fails THEN mem ELSE Reloaded(mem, db)) EXCEPT !.isLoading = FALSE]
    /\ last' = [op |-> "loadData", args |-> EmptyObj, pre |-> db, at |-> now,
                ret |-> IF fails THEN "Failed to load DB data" ELSE "ok"]
    /\ UNCHANGED <<db, now, run>>

\* dbService.getSettings() once the application runs
readSettings ==
    /\ ~ mem.isLoading
    /\ last' = [op |-> "getSettings", args |-> EmptyObj, pre |-> db, at |-> now,
                ret |-> getSettings(db)]
    /\ UNCHANGED <<db, now, mem, run>>

\* the settings store of an installation: never written, written, or holding
\* the record of an older version with fewer options
StartupStores ==
    {EmptyDB} \cup
    {PutAll(EmptyDB, {[kind |-> "settings", item |-> x]}) :
        x \in {StoredSettings, Spread(DEFAULT_SETTINGS, [id |-> "config", ttsEngine |-> "browser"])}}
    \cup {PutAll(EmptyDB, SeedRecords)}

InitStartup ==
    /\ db \in StartupStores
    /\ now = 0
    /\ last = NoCall
    /\ mem = InitialMem
    /\ run = NoRuns

NextStartup ==
    \/ \E fails \in BOOLEAN : loadData(fails)
    \/ readSettings
    \/ \E newSettings \in SettingsChanges, fails \in BOOLEAN :
          ~ mem.isLoading /\ updateSettings(newSettings, fails)
    \/ \E data \in SettingsDocuments :
          ~ mem.isLoading /\ importUserData([parses |-> TRUE, value |-> data], 0)

SpecStartup == InitStartup /\ [][NextStartup]_vars

-----------------------------------------------------------------------------
(* One review in a filled store *)

\* stores of every kind of record, their flashcards at any stage below MaxStage
FilledStores ==
    {[d EXCEPT !.flashcards = [k \in DOMAIN d.flashcards |-> [d.flashcards[k] EXCEPT !.stage = stage]]]
        : d \in BackupStores, stage \in 0..(MaxStage - 1)}

InitOneReview ==
    /\ db \in FilledStores
    /\ now = 1
    /\ last = NoCall
    /\ mem = Loaded(db)
    /\ run = NoRuns

NextOneReview ==
    /\ last = NoCall
    /\ \E cardId \in ReviewCardIds \cup {UnknownCardId}, quality \in Qualities :
          markCardReviewed(cardId, quality)

SpecOneReview == InitOneReview /\ [][NextOneReview]_vars

-----------------------------------------------------------------------------
(* Lookups and updates by id, for ids the store holds and ids it does not *)

UnknownArticleId == 7

UnknownSegmentIndex == 5

lookupArticle(id) ==
    /\ last' = [op |-> "getArticle", args |-> [id |-> id], pre |-> db, at |-> now,
                ret |-> getArticle(db, id)]
    /\ UNCHANGED <<db, now, mem, run>>

lookupFlashcard(id) ==
    /\ last' = [op |-> "getFlashcard", args |-> [id |-> id], pre |-> db, at |-> now,
                ret |-> getFlashcard(db, id)]
    /\ UNCHANGED <<db, now, mem, run>>

lookupSegment(articleId, index) ==
    /\ last' = [op |-> "getSegment", args |-> [articleId |-> articleId, segmentIndex |-> index],
                pre |-> db, at |-> now, ret |-> getSegment(db, articleId, index)]
    /\ UNCHANGED <<db, now, mem, run>>

\* the store after addArticle, and after a word of its first part was approved
LookupStores ==
    {EmptyDB, ReaderStore,
     updateSegment(addFlashcards(ReaderStore, <<CardOfAnalysis(Analysis("a"), 1, 1, 0)>>),
                   Spread(getSegment(ReaderStore, 1, 0), [approvedWordIds |-> <<"a">>]))}

LookupArticleIds == {1, UnknownArticleId}

LookupIndexes == {0, UnknownSegmentIndex}

InitLookup ==
    /\ db \in LookupStores
    /\ now = 1
    /\ last = NoCall
    /\ mem = Loaded(db)
    /\ run = NoRuns

NextLookup ==
    /\ last = NoCall
    /\ \/ \E id \in LookupArticleIds : lookupArticle(id)
       \/ \E id \in {1, UnknownCardId} : lookupFlashcard(id)
       \/ \E articleId \in LookupArticleIds, index \in LookupIndexes : lookupSegment(articleId, index)
       \/ \E id \in {1, UnknownCardId}, quality \in Qualities : markCardReviewed(id, quality)
       \/ \E articleId \in LookupArticleIds, index \in LookupIndexes, fails \in {"none", "updateSegment"} :
             \/ updateSegmentTranslation(articleId, index, "p", fails)
             \/ \E analysis \in PartAnalyses : updateSegmentAnalysis(articleId, index, analysis, fails)
       \/ \E articleId \in LookupArticleIds, index \in LookupIndexes, fails \in Failures :
             \/ \E selectedLemmas \in LemmaSelections :
                   approveWordsForSegment(articleId, index, selectedLemmas, fails)
             \/ \E lemma \in CustomLemmas :
                   addCustomWordToSegment(articleId, index, Analysis(lemma), fails)

SpecLookup == InitLookup /\ [][NextLookup]_vars

-----------------------------------------------------------------------------
(* The review session: the Review screen's state and its grade buttons *)

\* the grade events of one session, and the values of the three grade buttons
GradeEvents == {"first", "second"}

Grades == {1, 3, 5}

GradeFailures == {"none", "getFlashcard", "updateFlashcard"}

\* no handleGrade call for this event yet
NotGrading ==
    [pc |-> "idle", card |-> 0, index |-> 0, length |-> 0, grade |-> 0, fetched |-> Undefined]

\* setSessionCards(cards); setCurrentIndex(0); setShowBack(false) of handleStartSession
StartedSession(m, cards) ==
    Spread(m, [sessionCards |-> cards, currentIndex |-> 0, showBack |-> FALSE])

\* const currentCard = sessionCards[currentIndex] (currentIndex counts from 0)
HasCurrentCard(m) == m.currentIndex < Len(m.sessionCards)

currentCard(m) == m.sessionCards[m.currentIndex + 1]

\* the statements of handleGrade after the await, with the values of the render
\* that created the handler (call.index, call.length); setCurrentIndex(prev => prev + 1)
\* applies to the state at that moment
AfterGrade(m, call) ==
    IF call.index >= call.length - 1
    THEN [m EXCEPT !.showBack = FALSE, !.sessionCards = <<>>]
    ELSE [m EXCEPT !.showBack = FALSE, !.currentIndex = @ + 1]

GradeOutcomeIgnoringFailure(m, call, resolved) == AfterGrade(m, call)

\* handleGrade has no try/catch: when markCardReviewed rejects, nothing after the await runs
GradeOutcome(m, call, resolved) == IF resolved THEN AfterGrade(m, call) ELSE m

\* onClick of the card: !showBack && setShowBack(true)
flipCard ==
    /\ mem.sessionCards # <<>>
    /\ HasCurrentCard(mem)
    /\ ~mem.showBack
    /\ mem' = [mem EXCEPT !.showBack = TRUE]
    /\ UNCHANGED <<db, now, last, run>>

\* a grade button is pressed: handleGrade(grade) runs up to the store read of
\* markCardReviewed, with currentCard, currentIndex and sessionCards of the render
handleGrade(g, grade) ==
    /\ run[g].pc = "idle"
    /\ mem.sessionCards # <<>>
    /\ HasCurrentCard(mem)
    /\ mem.showBack
    /\ run' = [run EXCEPT ![g] =
                 [pc |-> "reading", card |-> currentCard(mem).id, index |-> mem.currentIndex,
                  length |-> Len(mem.sessionCards), grade |-> grade, fetched |-> Undefined]]
    /\ UNCHANGED <<db, now, last, mem>>

\* const card = await dbService.getFlashcard(cardId); if (!card) return
gradeRead(g, fails) ==
    LET call == run[g]
        card == getFlashcard(db, call.card)
        pc == IF fails THEN "rejected" ELSE IF card = Undefined THEN "resolved" ELSE "writing"
    IN
    /\ call.pc = "reading"
    /\ run' = [run EXCEPT ![g] = [call EXCEPT !.pc = pc, !.fetched = card]]
    /\ mem' = IF pc = "writing" THEN mem ELSE GradeOutcome(mem, call, ~fails)
    /\ last' = IF pc = "writing" THEN last
               ELSE [op |-> "handleGrade",
                     args |-> [event |-> g, cardId |-> call.card, grade |-> call.grade],
                     pre |-> db, at |-> now,
                     ret |-> IF fails THEN "rejected" ELSE "ok"]
    /\ UNCHANGED <<db, now>>

\* await dbService.updateFlashcard({ ...card, stage: newStage, nextReview }), then the
\* rest of handleGrade
gradeWrite(g, fails) ==
    LET call == run[g] IN
    /\ call.pc = "writing"
    /\ db' = IF fails THEN db
             ELSE updateFlashcard(db, ReviewedCard(call.fetched, call.grade, now))
    /\ run' = [run EXCEPT ![g] = [call EXCEPT !.pc = IF fails THEN "rejected" ELSE "resolved"]]
    /\ mem' = GradeOutcome(mem, call, ~fails)
    /\ last' = [op |-> "handleGrade",
                args |-> [event |-> g, cardId |-> call.card, grade |-> call.grade],
                pre |-> db, at |-> now,
                ret |-> IF fails THEN "rejected" ELSE "ok"]
    /\ UNCHANGED now

SessionCardIds == {<<1, 2>>, <<2, 1, 3>>}

GradingStore ==
    [EmptyDB EXCEPT !.flashcards =
        [id \in {1, 2, 3} |-> NewCard(id, "A1", "vocabulary", "B1", <<"a">>, <<"b">>, 0)]]

InitGrading ==
    /\ db = GradingStore
    /\ now = 1
    /\ last = NoCall
    /\ \E ids \in SessionCardIds :
          mem = StartedSession(Loaded(db), [i \in 1..Len(ids) |-> db.flashcards[ids[i]]])
    /\ run = [g \in GradeEvents |-> NotGrading]

NextGrading ==
    \/ flipCard
    \/ \E g \in GradeEvents, grade \in Grades : handleGrade(g, grade)
    \/ \E g \in GradeEvents, fails \in BOOLEAN : gradeRead(g, fails)
    \/ \E g \in GradeEvents, fails \in BOOLEAN : gradeWrite(g, fails)

SpecGrading == InitGrading /\ [][NextGrading]_vars

-----------------------------------------------------------------------------
(* Criteria: queryFlashcards over every combination of articleId, type and level *)

CriteriaLevels == {"B1", "B2"}

CriteriaTypes == {"vocabulary", "grammar"}

CriteriaShapes ==
    {[articleId |-> a, type |-> t, level |-> l] :
        a \in ArticleIds, t \in CriteriaTypes, l \in CriteriaLevels}

\* the stores with flashcards 1, 2 and 3, of any article, type and level
CriteriaStores ==
    { [EmptyDB EXCEPT !.flashcards =
          [id \in 1..3 |-> NewCard(id, f[id].articleId, f[id].type, f[id].level,
                                   <<"a">>, <<"1">>, 0)]]
      : f \in [1..3 -> CriteriaShapes] }

\* each criterion a value, absent or 'all'
CriteriaCombinations ==
    {Spread(Spread(a, t), l) :
        a \in Opt("articleId", ArticleIds \cup {"all"}),
        t \in Opt("type", CriteriaTypes \cup {"all"}),
        l \in Opt("level", CriteriaLevels \cup {"all"})}

InitCriteria ==
    /\ db \in CriteriaStores
    /\ now = 0
    /\ last = NoCall
    /\ mem = Loaded(db)
    /\ run = NoRuns

NextCriteria ==
    /\ last = NoCall
    /\ \E criteria \in CriteriaCombinations : searchFlashcards(criteria)

SpecCriteria == InitCriteria /\ [][NextCriteria]_vars

-----------------------------------------------------------------------------
(* Study plans: getCardsForSession in every mode, and pages of limit 0 *)

PlanLimits == {0, 1, 2}

\* the calls of the study plan screen and of callers that pass a limit
PlanArgs ==
    {Spread([mode |-> m, filters |-> f], l) :
        m \in {"due", "new", "all"}, f \in SessionFilters, l \in Opt("limit", PlanLimits)}

PlanPages ==
    {Spread(Spread(f, l), o) :
        f \in SessionFilters, l \in Opt("limit", {0, 1}), o \in Opt("offset", {0, 1})}

PlanShapes ==
    {[articleId |-> a, type |-> t, stage |-> s] :
        a \in ArticleIds, t \in CriteriaTypes, s \in {0, 1}}

\* flashcards 1, 2 and 3, all due at the time of the session
PlanStores ==
    { [EmptyDB EXCEPT !.flashcards =
          [id \in 1..3 |->
              [NewCard(id, f[id].articleId, f[id].type, "B1", <<"a">>, <<"1">>, 0)
                  EXCEPT !.stage = f[id].stage]]]
      : f \in [1..3 -> PlanShapes] }

InitPlan ==
    /\ db \in PlanStores
    /\ now = SessionTime
    /\ last = NoCall
    /\ mem = Loaded(db)
    /\ run = NoRuns

NextPlan ==
    /\ last = NoCall
    /\ \/ \E args \in PlanArgs : getCardsForSession(args)
       \/ \E criteria \in PlanPages : searchFlashcards(criteria)

SpecPlan == InitPlan /\ [][NextPlan]_vars

-----------------------------------------------------------------------------
(* Settings page: updateSettings calls and the renders of the provider between them *)

\* handleChange(key, value) of the Settings page: one key per call
PageChanges ==
    {[analysisModel |-> "gemini-2.5-pro"], [ttsEngine |-> "browser"], [segmentLength |-> 800]}

\* the provider renders: the updateSettings it hands out from now on closes over the
\* settings of this render
renderProvider ==
    /\ run.settings # mem.settings
    /\ run' = [run EXCEPT !.settings = mem.settings]
    /\ UNCHANGED <<db, now, last, mem>>

\* const updated = { ...settings, ...newSettings }; setSettings(updated); and the call of
\* dbService.saveSettings(updated), with settings the value of the last render
issueUpdateSettings(newSettings) ==
    LET updated == Spread(run.settings, newSettings) IN
    /\ DOMAIN newSettings \cap DOMAIN run.issued = {}
    /\ mem' = [mem EXCEPT !.settings = updated]
    /\ run' = [run EXCEPT !.saving = Append(@, updated),
                          !.issued = Spread(@, newSettings),
                          !.stale = @ \/ run.settings # mem.settings]
    /\ UNCHANGED <<db, now, last>>

\* the put of the oldest saveSettings call in progress completes
completeSaveSettings ==
    /\ run.saving # <<>>
    /\ db' = saveSettings(db, Head(run.saving))
    /\ run' = [run EXCEPT !.saving = Tail(@)]
    /\ last' = [op |-> "updateSettings", args |-> Head(run.saving), pre |-> db, at |-> now,
                ret |-> "ok"]
    /\ UNCHANGED <<now, mem>>

InitPage ==
    /\ db \in {EmptyDB, PutAll(EmptyDB, {[kind |-> "settings", item |-> StoredSettings]})}
    /\ now = 0
    /\ last = NoCall
    /\ mem = Loaded(db)
    /\ run = [settings |-> mem.settings, saving |-> <<>>, issued |-> EmptyObj, stale |-> FALSE]

NextPage ==
    \/ renderProvider
    \/ \E newSettings \in PageChanges : issueUpdateSettings(newSettings)
    \/ completeSaveSettings

SpecPage == InitPage /\ [][NextPage]_vars

-----------------------------------------------------------------------------
(* Analysis state: the in-memory article list across a reload and an import *)

\* the page is loaded again: the provider starts from its initial state and loadData runs
reloadApplication ==
    /\ mem' = Loaded(db)
    /\ last' = [op |-> "loadData", args |-> EmptyObj, pre |-> db, at |-> now, ret |-> "ok"]
    /\ UNCHANGED <<db, now, run>>

\* the backup files of this installation: exportUserData of the store as it is
OwnBackup == [parses |-> TRUE, value |-> exportDatabase(db, now)]

InitAnalysis ==
    /\ db = ReaderStore
    /\ now = 0
    /\ last = NoCall
    /\ mem = Loaded(db)
    /\ run = NoRuns

NextAnalysis ==
    \/ Tick
    \/ \E segmentIndex \in 0..1, analysis \in PartAnalyses, fails \in {"none", "updateSegment"} :
          updateSegmentAnalysis(1, segmentIndex, analysis, fails)
    \/ reloadApplication
    \/ \E file \in {OwnBackup, [parses |-> FALSE]} : importUserData(file, 0)

SpecAnalysis == InitAnalysis /\ [][NextAnalysis]_vars

-----------------------------------------------------------------------------
(* Segment calls in progress: the read and the write of each read-modify-write *)

SegmentCalls ==
    {"updateSegmentTranslation", "updateSegmentAnalysis", "approveWordsForSegment",
     "addCustomWordToSegment"}

\* the part of article 1 the Reader jumps to; it is stored without an analysis
JumpIndex == 1

JumpAnalysis == <<Analysis("a")>>

CustomWord == Analysis("c")

NotCalled == [pc |-> "idle", segment |-> Undefined, selected |-> <<>>]

\* the properties of the segment a call sets in the record it read
WrittenBy(op) ==
    CASE op = "updateSegmentTranslation" -> {"persianTranslation"}
      [] op = "updateSegmentAnalysis" -> {"analyzedWords", "isAnalyzed"}
      [] op = "approveWordsForSegment" -> {"approvedWordIds"}
      [] op = "addCustomWordToSegment" -> {"analyzedWords", "approvedWordIds"}

\* const exists = segment.analyzedWords.some(w => w.lemma === analysis.lemma)
CustomExists(segment) ==
    \E i \in 1..Len(segment.analyzedWords) : segment.analyzedWords[i].lemma = CustomWord.lemma

\* a call puts the segment unless it is addCustomWordToSegment of a known lemma
PutsSegment(op, segment) == op = "addCustomWordToSegment" => ~CustomExists(segment)

\* the record each call builds from the segment it read
SegmentUpdate(op, segment, selected) ==
    CASE op = "updateSegmentTranslation" -> Spread(segment, [persianTranslation |-> "p"])
      [] op = "updateSegmentAnalysis" ->
            Spread(segment, [analyzedWords |-> JumpAnalysis, isAnalyzed |-> TRUE])
      [] op = "approveWordsForSegment" -> Spread(segment, [approvedWordIds |-> selected])
      [] op = "addCustomWordToSegment" ->
            Spread(segment, [analyzedWords |-> Append(segment.analyzedWords, CustomWord),
                             approvedWordIds |-> Append(segment.approvedWordIds, CustomWord.lemma)])

\* the Reader's part selector: an unanalysed part is analysed, updateSegmentAnalysis is
\* started without await, and the word selection screen opens
handleJumpToPart ==
    /\ run.screen = "read"
    /\ run.calls["updateSegmentAnalysis"].pc = "idle"
    /\ \E i \in 1..Len(mem.articles) :
          /\ mem.articles[i].id = 1
          /\ \E j \in 1..Len(mem.articles[i].segments) :
                /\ mem.articles[i].segments[j].index = JumpIndex
                /\ ~mem.articles[i].segments[j].isAnalyzed
    /\ run' = [run EXCEPT !.screen = "select-words", !.shown = Undefined,
                          !.calls["updateSegmentAnalysis"].pc = "reading"]
    /\ UNCHANGED <<db, now, last, mem>>

\* the word selection screen's getSegment resolves: setSegment(s || null)
showSegment ==
    /\ run.screen = "select-words"
    /\ run.shown = Undefined
    /\ run' = [run EXCEPT !.shown = getSegment(db, 1, JumpIndex)]
    /\ UNCHANGED <<db, now, last, mem>>

\* handleConfirm: approveWordsForSegment(article.id, currentIdx, Array.from(selected)),
\* selected being the lemmas of the segment shown
handleConfirm ==
    /\ run.screen = "select-words"
    /\ run.shown # Undefined
    /\ run.calls["approveWordsForSegment"].pc = "idle"
    /\ run' = [run EXCEPT !.calls["approveWordsForSegment"] =
                 [NotCalled EXCEPT !.pc = "reading",
                                   !.selected = [i \in 1..Len(run.shown.analyzedWords) |->
                                                    run.shown.analyzedWords[i].lemma]]]
    /\ UNCHANGED <<db, now, last, mem>>

\* the Reader starts a translation update or adds a custom word
startSegmentCall(op) ==
    /\ op \in {"updateSegmentTranslation", "addCustomWordToSegment"}
    /\ run.calls[op].pc = "idle"
    /\ run' = [run EXCEPT !.calls[op].pc = "reading"]
    /\ UNCHANGED <<db, now, last, mem>>

\* const segment = await dbService.getSegment(articleId, segmentIndex)
segmentRead(op) ==
    /\ run.calls[op].pc = "reading"
    /\ run' = [run EXCEPT !.calls[op].pc = "writing",
                          !.calls[op].segment = getSegment(db, 1, JumpIndex)]
    /\ UNCHANGED <<db, now, last, mem>>

\* the puts of the call, from the segment it read, and the rest of the handler
segmentWrite(op) ==
    LET call == run.calls[op]
        updated == SegmentUpdate(op, call.segment, call.selected)
        noted == IF PutsSegment(op, call.segment) THEN updateSegment(db, updated) ELSE db
        approved == ApprovedCards(db, call.segment, 1, call.selected, now)
    IN
    /\ call.pc = "writing"
    /\ db' = CASE op = "approveWordsForSegment" ->
                    updateSegment(addFlashcards(db, approved), updated)
               [] op = "addCustomWordToSegment" ->
                    addFlashcards(noted, <<CardOfAnalysis(CustomWord, NextCardId(db), 1, now)>>)
               [] OTHER -> noted
    /\ mem' = IF op = "updateSegmentAnalysis"
              THEN [mem EXCEPT !.articles = MarkAnalyzed(@, 1, JumpIndex)]
              ELSE mem
    /\ run' = [run EXCEPT !.calls[op].pc = "done",
                          !.screen = IF op = "approveWordsForSegment" THEN "read" ELSE @]
    /\ last' = [op |-> op, args |-> [articleId |-> 1, segmentIndex |-> JumpIndex],
                pre |-> db, at |-> now, ret |-> "ok"]
    /\ UNCHANGED now

InitSegmentCalls ==
    /\ db = ReaderStore
    /\ now = 0
    /\ last = NoCall
    /\ mem = Loaded(db)
    /\ run = [screen |-> "read", shown |-> Undefined, calls |-> [op \in SegmentCalls |-> NotCalled]]

NextSegmentCalls ==
    \/ handleJumpToPart
    \/ showSegment
    \/ handleConfirm
    \/ \E op \in SegmentCalls : startSegmentCall(op)
    \/ \E op \in SegmentCalls : segmentRead(op)
    \/ \E op \in SegmentCalls : segmentWrite(op)

SpecSegmentCalls == InitSegmentCalls /\ [][NextSegmentCalls]_vars

-----------------------------------------------------------------------------
(* Claims *)

\* the last call was markCardReviewed on a card that was in the store
ReviewedStored ==
    /\ last.op = "markCardReviewed"
    /\ last.args.cardId \in DOMAIN last.pre.flashcards

\* C1: a review with quality >= 3 of a stored card of stage s stores the card
\* with stage s + 1 and nextReview = review time + 2^(s+1) * 86,400,000 ms.
C1_PassAdvances ==
    (ReviewedStored /\ last.args.quality >= 3) =>
        LET id == last.args.cardId
            s == last.pre.flashcards[id].stage IN
        /\ id \in DOMAIN db.flashcards
        /\ db.flashcards[id].stage = s + 1
        /\ db.flashcards[id].nextReview = last.at + Pow2(s + 1) * 86400000

C1_Witness ==
    /\ ReviewedStored
    /\ last.args.quality >= 3
    /\ last.pre.flashcards[last.args.cardId].stage = 2
    /\ last.at > 0

\* C2: a review with quality < 3 of a stored card, whatever its stage, stores
\* the card with stage 0 and nextReview equal to the review time.
C2_FailResets ==
    (ReviewedStored /\ last.args.quality < 3) =>
        LET id == last.args.cardId IN
        /\ id \in DOMAIN db.flashcards
        /\ db.flashcards[id].stage = 0
        /\ db.flashcards[id].nextReview = last.at

C2_Witness ==
    /\ ReviewedStored
    /\ last.args.quality < 0
    /\ last.pre.flashcards[last.args.cardId].stage = 2
    /\ last.at > 0

Stored(d) == {d.flashcards[k] : k \in DOMAIN d.flashcards}

\* C3: queryFlashcards({articleId: A}), type and level absent or 'all', returns
\* exactly the stored flashcards of article A, each once, ascending by word.
C3_ByArticleExactSorted ==
    (last.op = "queryFlashcards" /\ DOMAIN last.args \subseteq {"articleId", "type", "level"}) =>
        LET A == last.args.articleId
            expected == {c \in Stored(last.pre) : c.articleId = A} IN
        /\ Range(last.ret) = expected
        /\ Len(last.ret) = Cardinality(expected)
        /\ \A i, j \in 1..Len(last.ret) :
              i < j => localeCompare(last.ret[i].word, last.ret[j].word) <= 0

C3_Witness ==
    /\ last.op = "queryFlashcards"
    /\ DOMAIN last.args \subseteq {"articleId", "type", "level"}
    /\ Len(last.ret) = 2
    /\ last.ret[1].id > last.ret[2].id
    /\ last.ret[1].type # last.ret[2].type
    /\ Cardinality(DOMAIN last.pre.flashcards) = 3

\* C4: the pages of size L at offsets 0, L, 2L, ... up to the first page
\* shorter than L, concatenated, are the unpaginated result of the same
\* filters: the same order, every record once.
C4_PagesComplete ==
    (last.op = "pages") =>
        LET filters == [k \in (DOMAIN last.args) \ {"limit"} |-> last.args[k]] IN
        /\ last.ret = queryFlashcards(last.pre, filters)
        /\ \A i, j \in 1..Len(last.ret) : i # j => last.ret[i].id # last.ret[j].id

C4_Witness ==
    /\ last.op = "pages"
    /\ last.args.limit = 1
    /\ Len(last.ret) = 3
    /\ "search" \in DOMAIN last.args

\* text is a substring of field when the case of letters is ignored
FoldedSubstring(text, field) == includes(toLowerCase(field), toLowerCase(text))

\* C5: with a non-empty search text a card passes the search filter if and
\* only if the text is, ignoring case, a substring of its word or of its
\* persianTranslation.
C5_SearchIgnoresCase ==
    (last.op = "queryFlashcards" /\ HasSearch(last.args)) =>
        \A c \in Stored(last.pre) :
            c \in Range(last.ret) <=>
                \/ FoldedSubstring(last.args.search, c.word)
                \/ FoldedSubstring(last.args.search, c.persianTranslation)

\* the part of C5 the code keeps: the word is matched without regard to case,
\* the translation against the lower-cased search text as it is stored
C5_SearchAsCoded ==
    (last.op = "queryFlashcards" /\ HasSearch(last.args)) =>
        \A c \in Stored(last.pre) :
            c \in Range(last.ret) <=>
                \/ FoldedSubstring(last.args.search, c.word)
                \/ includes(c.persianTranslation, toLowerCase(last.args.search))

\* C6: every card getCardsForSession returns in mode 'due' has nextReview <=
\* the time of the call, and every card it returns in mode 'new' has stage 0.
C6_SessionCardsFitMode ==
    (last.op = "getCardsForSession") =>
        \A c \in Range(last.ret) :
            /\ last.args.mode = "due" => c.nextReview <= last.at
            /\ last.args.mode = "new" => c.stage = 0

C6_Witness ==
    /\ last.op = "getCardsForSession"
    /\ last.args.mode = "due"
    /\ \E c \in Range(last.ret) : c.nextReview = last.at
    /\ \E c \in Stored(last.pre) : c.nextReview > last.at

C6_WitnessNew ==
    /\ last.op = "getCardsForSession"
    /\ last.args.mode = "new"
    /\ Len(last.ret) = 1
    /\ \E c \in Stored(last.pre) : c.stage # 0

\* a card satisfies the articleId, type and level filters of a session
PassesFilters(c, filters) ==
    /\ Specified(filters, "articleId") => c.articleId = filters.articleId
    /\ Specified(filters, "type") => c.type = filters.type
    /\ Specified(filters, "level") => c.level = filters.level

LimitOf(args) == IF "limit" \in DOMAIN args THEN args.limit ELSE 50

\* C7: when the store holds no more due cards than the limit (default 50),
\* getCardsForSession('due', filters) returns exactly the stored cards with
\* nextReview <= now that pass the filters, each once, in any order.
C7_DueSessionExact ==
    LET due == {c \in Stored(last.pre) : c.nextReview <= last.at} IN
    (/\ last.op = "getCardsForSession"
     /\ last.args.mode = "due"
     /\ Cardinality(due) <= LimitOf(last.args)) =>
        LET expected == {c \in due : PassesFilters(c, last.args.filters)} IN
        /\ Range(last.ret) = expected
        /\ Len(last.ret) = Cardinality(expected)

\* the scenario of the specification: three cards of A1, stages 0, 1, 2, due
\* 1000 ms ago, in 1000 ms and 5000 ms ago; the session holds the first and third
C7_Witness ==
    /\ last.op = "getCardsForSession"
    /\ last.args = [mode |-> "due", filters |-> [articleId |-> "A1"]]
    /\ DOMAIN last.pre.flashcards = {1, 2, 3}
    /\ \A k \in 1..3 : last.pre.flashcards[k].articleId = "A1"
    /\ last.pre.flashcards[1].nextReview = last.at - 1000
    /\ last.pre.flashcards[2].nextReview = last.at + 1000
    /\ last.pre.flashcards[3].nextReview = last.at - 5000
    /\ last.pre.flashcards[1].stage = 0
    /\ last.pre.flashcards[3].stage = 2
    /\ {c.id : c \in Range(last.ret)} = {1, 3}

\* the records a document lists for a kind; its settings object is one record
ListedRecords(data, kind) ==
    IF kind \notin DOMAIN data THEN <<>>
    ELSE IF kind = "settings" THEN <<data.settings>>
    ELSE data[kind]

ListedIds(data, kind) ==
    LET recs == ListedRecords(data, kind)
    IN {recs[i].id : i \in {j \in 1..Len(recs) : "id" \in DOMAIN recs[j]}}

\* the last record of the document's list for the kind that has the id
LastListed(data, kind, id) ==
    LET recs == ListedRecords(data, kind)
        at == CHOOSE i \in 1..Len(recs) :
                 /\ "id" \in DOMAIN recs[i] /\ recs[i].id = id
                 /\ \A j \in (i + 1)..Len(recs) : ~ ("id" \in DOMAIN recs[j] /\ recs[j].id = id)
    IN recs[at]

Imported == last.op = "importDatabase" /\ last.ret = "ok"

\* C8 as stated, for all five kinds: a stored record whose id the document
\* does not list for its kind is unchanged, and every record of the document
\* is in the store as the document has it.
C8_ImportMergesEveryKind ==
    Imported =>
        \A kind \in Kinds :
            LET recs == ListedRecords(last.args, kind) IN
            /\ \A k \in (DOMAIN last.pre[kind]) \ ListedIds(last.args, kind) :
                  k \in DOMAIN db[kind] /\ db[kind][k] = last.pre[kind][k]
            /\ \A i \in 1..Len(recs) :
                  /\ "id" \in DOMAIN recs[i]
                  /\ recs[i].id \in DOMAIN db[kind]
                  /\ db[kind][recs[i].id] = recs[i]

\* C8, amended: for articles, segments, flashcards and collections a stored
\* record whose id the document does not list is unchanged and each listed id
\* holds the document's last record with that id, in every field; the
\* document's settings object is stored under the id 'config', whatever id it
\* carries, replacing the stored settings record; nothing else is stored.
C8_ImportMergesLists ==
    Imported =>
        /\ \A i \in 1..Len(ListKinds) :
              LET kind == ListKinds[i]
                  ids == ListedIds(last.args, kind) IN
              /\ DOMAIN db[kind] = (DOMAIN last.pre[kind]) \cup ids
              /\ \A k \in (DOMAIN last.pre[kind]) \ ids : db[kind][k] = last.pre[kind][k]
              /\ \A id \in ids : db[kind][id] = LastListed(last.args, kind, id)
        /\ IF "settings" \in DOMAIN last.args
           THEN /\ DOMAIN db.settings = (DOMAIN last.pre.settings) \cup {"config"}
                /\ \A k \in DOMAIN db.settings :
                      db.settings[k] =
                          IF k = "config"
                          THEN [f \in (DOMAIN last.args.settings) \cup {"id"} |->
                                   IF f = "id" THEN "config" ELSE last.args.settings[f]]
                          ELSE last.pre.settings[k]
           ELSE db.settings = last.pre.settings

\* an import in which flashcard 2 survives, flashcard 1 is overwritten by a
\* record without its optional property, and a record with a new id arrives
C8_Witness ==
    /\ Imported
    /\ DOMAIN last.pre.flashcards = {1, 2}
    /\ ListedIds(last.args, "flashcards") = {1}
    /\ "phonetic" \in DOMAIN last.pre.flashcards[1]
    /\ db.flashcards[1] # last.pre.flashcards[1]
    /\ \E kind \in Kinds : DOMAIN db[kind] # DOMAIN last.pre[kind]

\* C9: an import that fails leaves the store as it was before the import.
C9_FailedImportLeavesStore ==
    (last.op = "importDatabase" /\ last.ret # "ok") => db = last.pre

\* what the code keeps of C9: a request the storage engine fails aborts the
\* transaction, and the store is as before
C9_AbortedImportLeavesStore ==
    (last.op = "importDatabase" /\ last.ret = "aborted") => db = last.pre

\* C10: the export of a store S imported into an empty store gives a store
\* with the same set of flashcards (queryFlashcards({})) and of articles
\* (getArticles) as S.
C10_RoundTrip ==
    (last.op = "restoreOnEmptyStore") =>
        /\ last.ret.ret = "ok"
        /\ Range(queryFlashcards(last.ret.db, EmptyObj)) = Range(queryFlashcards(last.pre, EmptyObj))
        /\ Range(getArticles(last.ret.db)) = Range(getArticles(last.pre))

C10_Witness ==
    /\ last.op = "restoreOnEmptyStore"
    /\ Len(queryFlashcards(last.ret.db, EmptyObj)) = 2
    /\ Len(getArticles(last.ret.db)) = 1
    /\ "settings" \in DOMAIN last.args
    /\ Len(last.args.segments) = 1

\* the file does not parse, or one of its kinds lists something that is not a
\* record with an id
Malformed(file) ==
    \/ ~ file.parses
    \/ \E i \in 1..Len(ListKinds) :
          /\ ListKinds[i] \in DOMAIN file.value
          /\ \E j \in 1..Len(file.value[ListKinds[i]]) : ~ HasKey(file.value[ListKinds[i]][j])

\* C11: importUserData of a malformed file reports a failure and leaves the
\* store exactly as it was before the import.
C11_MalformedImportLeavesStore ==
    (last.op = "importUserData" /\ Malformed(last.args)) =>
        /\ last.ret = "Import failed. Invalid file format."
        /\ db = last.pre

\* what the code keeps of C11: the failure is reported, and a file that does
\* not parse writes nothing
C11_MalformedImportReported ==
    (last.op = "importUserData" /\ Malformed(last.args)) =>
        /\ last.ret = "Import failed. Invalid file format."
        /\ ~ last.args.parses => db = last.pre

\* the document lists the record put by p
InDocument(data, p) ==
    IF p.kind = "settings" THEN "settings" \in DOMAIN data /\ data.settings = p.item
    ELSE p.item \in Range(data[p.kind])

\* C12: the document exportDatabase returns is the content of all five kinds
\* at one point in time, and holds all or none of the records of each write
\* transaction it ran interleaved with.
C12_ExportIsSnapshot ==
    (last.op = "exportDatabase") =>
        /\ last.ret = exportDatabase(last.pre, last.at)
        /\ \A w \in Writers :
              \/ \A i \in 1..Len(WritePuts(w)) : InDocument(last.ret, WritePuts(w)[i])
              \/ \A i \in 1..Len(WritePuts(w)) : ~ InDocument(last.ret, WritePuts(w)[i])

C12_Witness ==
    /\ last.op = "exportDatabase"
    /\ \A i \in 1..Len(WritePuts("addArticle")) : InDocument(last.ret, WritePuts("addArticle")[i])
    /\ \A i \in 1..Len(WritePuts("addFlashcards")) : ~ InDocument(last.ret, WritePuts("addFlashcards")[i])
    /\ run["addFlashcards"].pc = "done"
    /\ run["importDatabase"].pc = "aborted"
    /\ Len(last.ret.flashcards) = 2

\* the segments stored for the article with the id articleId
SegmentsOf(d, articleId) == {d.segments[k] : k \in {x \in DOMAIN d.segments : d.segments[x].articleId = articleId}}

\* C13: the store holds an article together with every one of its segments, or
\* neither the article nor any of its segments; an addArticle that failed has
\* left the store as it was.
C13_ArticleWithAllSegments ==
    /\ \A a \in DOMAIN db.articles :
          {s.id : s \in SegmentsOf(db, a)} = {db.articles[a].segments[i].id : i \in 1..Len(db.articles[a].segments)}
    /\ \A k \in DOMAIN db.segments : db.segments[k].articleId \in DOMAIN db.articles
    /\ (last.op = "addArticle" /\ last.ret # "ok") => db = last.pre
    /\ (last.op = "addArticle" /\ last.ret = "ok") =>
          /\ last.args.id \in DOMAIN db.articles
          /\ SegmentsOf(db, last.args.id) =
                {Spread(last.args.segments[i], [articleId |-> last.args.id]) : i \in 1..Len(last.args.segments)}

\* the second segment write of the second article failed
C13_Witness ==
    /\ last.op = "addArticle"
    /\ last.ret = "aborted"
    /\ last.args.fault = 3
    /\ Len(last.args.segments) = 2
    /\ DOMAIN db.articles = {1}
    /\ Cardinality(DOMAIN db.segments) = 2

StagesAreNatural(d) == \A c \in DOMAIN d.flashcards : d.flashcards[c].stage \in Nat

\* C14: the stage of every stored flashcard is a non-negative integer.
C14_StageIsNatural == StagesAreNatural(db)

\* what the code keeps of C14: approveWordsForSegment, addCustomWordToSegment
\* and markCardReviewed never make a stage negative
C14_OnlyImportBreaksStage ==
    [][(StagesAreNatural(db) /\ last'.op # "importDatabase") => StagesAreNatural(db')]_vars

SegmentsAreUnique(d) ==
    \A k1, k2 \in DOMAIN d.segments :
        (d.segments[k1].articleId = d.segments[k2].articleId
            /\ d.segments[k1].index = d.segments[k2].index) => k1 = k2

\* C15: no two stored segments have the same (articleId, index) pair.
C15_SegmentPerArticleAndIndex == SegmentsAreUnique(db)

\* what the code keeps of C15: addArticle and the updateSegment of a fetched
\* segment never store a second segment for an (articleId, index) pair
C15_OnlyImportDuplicates ==
    [][(SegmentsAreUnique(db) /\ last'.op # "importDatabase") => SegmentsAreUnique(db')]_vars

ApprovedAreAnalyzed(d) ==
    \A k \in DOMAIN d.segments :
        Range(d.segments[k].approvedWordIds) \subseteq LemmasOf(d.segments[k])

\* C16: every entry of a stored segment's approvedWordIds is the lemma of
\* some entry of that segment's analyzedWords.
C16_ApprovedAreAnalyzed == ApprovedAreAnalyzed(db)

\* what the code keeps of C16: approving offered words and adding a custom
\* word never leave an approved lemma without its analysis
C16_OnlyReanalysisBreaks ==
    [][(ApprovedAreAnalyzed(db) /\ last'.op # "updateSegmentAnalysis")
          => ApprovedAreAnalyzed(db')]_vars

\* C17: the settings store holds no record but the one with the id 'config',
\* also after the import of a settings object with another id or none.
C17_OnlyConfigRecord ==
    \A k \in DOMAIN db.settings : k = "config" /\ db.settings[k].id = "config"

C17_Witness ==
    /\ last.op = "importDatabase"
    /\ last.ret = "ok"
    /\ "id" \in DOMAIN last.args.settings
    /\ last.args.settings.id = "other"
    /\ "config" \in DOMAIN last.pre.settings
    /\ db.settings["config"] # last.pre.settings["config"]

\* the same after an import of settings without an id, and after updateSettings
C17_WitnessNoId ==
    /\ last.op = "importDatabase"
    /\ "id" \notin DOMAIN last.args.settings
    /\ DOMAIN last.pre.settings = {}
    /\ DOMAIN db.settings = {"config"}

C19_ReviewChangesStageAndDate ==
    (last.op = "markCardReviewed" /\ last.args.cardId \in DOMAIN last.pre.flashcards) =>
        LET id == last.args.cardId
            before == last.pre.flashcards[id]
        IN /\ \A kind \in Kinds \ {"flashcards"} : db[kind] = last.pre[kind]
           /\ DOMAIN db.flashcards = DOMAIN last.pre.flashcards
           /\ \A k \in DOMAIN db.flashcards : k # id => db.flashcards[k] = last.pre.flashcards[k]
           /\ DOMAIN db.flashcards[id] = DOMAIN before
           /\ \A f \in (DOMAIN before) \ {"stage", "nextReview"} : db.flashcards[id][f] = before[f]

\* a pass of card 1, which has a phonetic, in a store that holds another card
\* and a record of every other kind
C19_Witness ==
    /\ last.op = "markCardReviewed"
    /\ last.args.cardId = 1
    /\ last.args.quality >= 3
    /\ 1 \in DOMAIN last.pre.flashcards
    /\ "phonetic" \in DOMAIN last.pre.flashcards[1]
    /\ db.flashcards[1].stage # last.pre.flashcards[1].stage
    /\ db.flashcards[1].nextReview # last.pre.flashcards[1].nextReview
    /\ 2 \in DOMAIN db.flashcards
    /\ \A kind \in Kinds : DOMAIN db[kind] # {}

\* the store d holds no segment for (articleId, index)
NoSegment(d, articleId, index) ==
    ~ \E k \in DOMAIN d.segments :
          d.segments[k].articleId = articleId /\ d.segments[k].index = index

SegmentOperations ==
    {"updateSegmentTranslation", "updateSegmentAnalysis", "approveWordsForSegment",
     "addCustomWordToSegment"}

\* C20: a lookup that finds nothing returns an absent value, and an update of
\* an unknown card or segment completes without error and leaves the store
\* as it was.
C20_NotFoundIsAbsent ==
    /\ (last.op = "getArticle" /\ last.args.id \notin DOMAIN last.pre.articles) =>
          last.ret = Undefined /\ db = last.pre
    /\ (last.op = "getFlashcard" /\ last.args.id \notin DOMAIN last.pre.flashcards) =>
          last.ret = Undefined /\ db = last.pre
    /\ (last.op = "getSegment"
            /\ NoSegment(last.pre, last.args.articleId, last.args.segmentIndex)) =>
          last.ret = Undefined /\ db = last.pre
    /\ (last.op = "markCardReviewed" /\ last.args.cardId \notin DOMAIN last.pre.flashcards) =>
          last.ret = "ok" /\ db = last.pre
    /\ (last.op \in SegmentOperations
            /\ NoSegment(last.pre, last.args.articleId, last.args.segmentIndex)) =>
          last.ret = "ok" /\ db = last.pre /\ mem = Loaded(last.pre)

\* approveWordsForSegment for a part the stored article does not have
C20_Witness ==
    /\ last.op = "approveWordsForSegment"
    /\ last.args.articleId = 1
    /\ last.args.segmentIndex = UnknownSegmentIndex
    /\ last.args.selectedLemmas = <<"a", "b">>
    /\ 1 \in DOMAIN last.pre.articles
    /\ DOMAIN last.pre.flashcards # {}
    /\ db = last.pre

\* C21: when persisting a grade fails (the read or the write of markCardReviewed is
\* rejected), the step that rejects the grade leaves the session where it was: the same
\* card list, the same current index and so the same current card, and nothing stored
C21_FailedGradeKeepsCard ==
    [][(\E g \in GradeEvents : run[g].pc # "rejected" /\ run'[g].pc = "rejected")
          => /\ mem'.sessionCards = mem.sessionCards
             /\ mem'.currentIndex = mem.currentIndex
             /\ mem'.showBack = mem.showBack
             /\ db' = db]_vars

\* a grade of the second card of a session was rejected by the store and that card is
\* still the current one, not reviewed
C21_Witness ==
    /\ last.op = "handleGrade" /\ last.ret = "rejected"
    /\ mem.currentIndex = 1
    /\ HasCurrentCard(mem)
    /\ currentCard(mem).id = last.args.cardId
    /\ db.flashcards[last.args.cardId].nextReview = 0

\* C28: every grade event reviews the displayed card once and advances the session by one
\* card: no stored card has its stage advanced twice by the grades of one session, and
\* every card the session has moved past has a stored review
C28_GradeOnceAdvanceOne ==
    /\ \A id \in DOMAIN db.flashcards : db.flashcards[id].stage <= 1
    /\ \A i \in 1..Len(mem.sessionCards) :
          i <= mem.currentIndex => db.flashcards[mem.sessionCards[i].id].nextReview # 0

\* C22: for every combination of articleId, type and level criteria (a value, absent or
\* 'all'), queryFlashcards returns exactly the stored flashcards that satisfy every given
\* criterion, each once: the same set as a full scan filtered by all of them, whichever
\* index seeded the candidates
C22_SameAsFilteredScan ==
    last.op = "queryFlashcards" =>
        LET given == {x \in DOMAIN last.args : last.args[x] # "all"}
            scan == {c \in Range(getAllFlashcards(last.pre)) :
                        \A x \in given : c[x] = last.args[x]}
        IN /\ Range(last.ret) = scan
           /\ Len(last.ret) = Cardinality(scan)

\* a query with a type and a level and no article (seeded from the type index) that keeps
\* some cards of that type and drops another for its level
C22_Witness ==
    /\ last.op = "queryFlashcards"
    /\ DOMAIN last.args = {"type", "level"}
    /\ last.args.type # "all" /\ last.args.level # "all"
    /\ Len(last.ret) = 1
    /\ \E id \in DOMAIN last.pre.flashcards :
          /\ last.pre.flashcards[id].type = last.args.type
          /\ last.pre.flashcards[id].level # last.args.level

\* C23: in modes 'due' and 'new' getCardsForSession cuts the candidates to the first
\* `limit` records in index order (nextReview, then id, for 'due'; id for 'new') before
\* the filters apply: it returns exactly the cards among those first `limit` candidates
\* that pass the filters, each once
C23_CutBeforeFilters ==
    (last.op = "getCardsForSession" /\ last.args.mode \in {"due", "new"}) =>
        LET pool == IF last.args.mode = "due"
                    THEN {c \in Stored(last.pre) : c.nextReview <= last.at}
                    ELSE {c \in Stored(last.pre) : c.stage = 0}
            Precedes(p, c) ==
                IF last.args.mode = "due"
                THEN p.nextReview < c.nextReview \/ (p.nextReview = c.nextReview /\ p.id < c.id)
                ELSE p.id < c.id
            first == {c \in pool :
                         Cardinality({p \in pool : Precedes(p, c)}) < LimitOf(last.args)}
            expected == {c \in first : PassesFilters(c, last.args.filters)}
        IN /\ Range(last.ret) = expected
           /\ Len(last.ret) = Cardinality(expected)

\* a 'due' session with limit 2 returns one card although two due cards pass the filters:
\* the second of them lies behind two earlier candidates
C23_Witness ==
    /\ last.op = "getCardsForSession"
    /\ last.args.mode = "due"
    /\ "limit" \in DOMAIN last.args /\ last.args.limit = 2
    /\ Len(last.ret) = 1
    /\ Cardinality({c \in Stored(last.pre) :
                       c.nextReview <= last.at /\ PassesFilters(c, last.args.filters)}) = 2

\* a 'new' session with limit 1 returns no card although a new card passes the filters
C23_WitnessNone ==
    /\ last.op = "getCardsForSession"
    /\ last.args.mode = "new"
    /\ "limit" \in DOMAIN last.args /\ last.args.limit = 1
    /\ last.ret = <<>>
    /\ \E c \in Stored(last.pre) : c.stage = 0 /\ PassesFilters(c, last.args.filters)

\* a sequence lists exactly the elements of another, each as often
IsPermutation(s, t) ==
    /\ Len(s) = Len(t)
    /\ \A x \in Range(s) \cup Range(t) :
          Cardinality({i \in 1..Len(s) : s[i] = x}) = Cardinality({i \in 1..Len(t) : t[i] = x})

\* C24: getCardsForSession('all', filters, limit) returns a permutation of
\* queryFlashcards({...filters, limit}), and in every mode the result is a permutation of
\* the filtered cards: the shuffle drops no card and repeats none
C24_SessionIsPermutation ==
    last.op = "getCardsForSession" =>
        /\ last.args.mode = "all" =>
              IsPermutation(last.ret,
                  queryFlashcards(last.pre,
                      Spread(last.args.filters, [limit |-> LimitOf(last.args)])))
        /\ IsPermutation(last.ret,
              SessionCards(last.pre, last.at, last.args.mode, last.args.filters,
                           LimitOf(last.args)))
        /\ \A i, j \in 1..Len(last.ret) : last.ret[i] = last.ret[j] => i = j

\* an 'all' session of two cards in the order opposite to queryFlashcards'
C24_Witness ==
    /\ last.op = "getCardsForSession"
    /\ last.args.mode = "all"
    /\ "limit" \in DOMAIN last.args /\ last.args.limit = 2
    /\ Len(last.ret) = 2
    /\ last.ret # queryFlashcards(last.pre, Spread(last.args.filters, [limit |-> 2]))
    /\ \E c \in Stored(last.pre) : ~PassesFilters(c, last.args.filters)

\* C30: queryFlashcards treats limit 0 like an absent limit: it returns every filtered
\* record from the offset to the end; getCardsForSession with limit 0 returns no card in
\* modes 'due' and 'new' (getDueFlashcards(0), getNewFlashcards(0) are empty) and all
\* matching cards in mode 'all'
C30_LimitZero ==
    LET matching == {c \in Stored(last.pre) : PassesFilters(c, last.args)}
        offset == IF "offset" \in DOMAIN last.args THEN last.args.offset ELSE 0
        rest == IF Cardinality(matching) > offset THEN Cardinality(matching) - offset ELSE 0
    IN
    /\ (last.op = "queryFlashcards" /\ "limit" \in DOMAIN last.args /\ last.args.limit = 0) =>
          /\ Len(last.ret) = rest
          /\ Range(last.ret) \subseteq matching
          /\ last.ret = queryFlashcards(last.pre,
                            [x \in DOMAIN last.args \ {"limit"} |-> last.args[x]])
    /\ (last.op = "getCardsForSession" /\ "limit" \in DOMAIN last.args /\ last.args.limit = 0) =>
          /\ last.args.mode \in {"due", "new"} => last.ret = <<>>
          /\ getDueFlashcards(last.pre, last.at, 0) = <<>>
          /\ getNewFlashcards(last.pre, 0) = <<>>
          /\ last.args.mode = "all" =>
                /\ Range(last.ret) = {c \in Stored(last.pre) :
                                         PassesFilters(c, last.args.filters)}
                /\ Len(last.ret) = Cardinality(Range(last.ret))

\* a page with limit 0 that holds two cards
C30_Witness ==
    /\ last.op = "queryFlashcards"
    /\ "limit" \in DOMAIN last.args /\ last.args.limit = 0
    /\ "offset" \in DOMAIN last.args /\ last.args.offset = 1
    /\ Len(last.ret) = 2

\* sessions with limit 0: empty in mode 'new' although new cards are stored, and of
\* three cards in mode 'all'
C30_WitnessNew ==
    /\ last.op = "getCardsForSession"
    /\ last.args.mode = "new"
    /\ "limit" \in DOMAIN last.args /\ last.args.limit = 0
    /\ last.ret = <<>>
    /\ \E c \in Stored(last.pre) : c.stage = 0 /\ PassesFilters(c, last.args.filters)

C30_WitnessAll ==
    /\ last.op = "getCardsForSession"
    /\ last.args.mode = "all"
    /\ "limit" \in DOMAIN last.args /\ last.args.limit = 0
    /\ Len(last.ret) = 3

\* the updateSettings calls issued so far have all taken effect in the settings s
ChangesTookEffect(s) == \A k \in DOMAIN run.issued : k \in DOMAIN s /\ s[k] = run.issued[k]

\* C29: updateSettings calls that change different keys all take effect: once the calls
\* issued have completed, the in-memory settings and the stored settings record hold the
\* value of each call for its key, and the stored record equals the in-memory settings
\* (the record's id aside)
C29_AllChangesTakeEffect ==
    (run.saving = <<>> /\ run.issued # EmptyObj) =>
        /\ ChangesTookEffect(mem.settings)
        /\ getSettings(db) # Undefined
        /\ ChangesTookEffect(getSettings(db))
        /\ WithoutId(getSettings(db)) = WithoutId(mem.settings)

\* the calls that are each issued after the provider rendered the result of the one
\* before do all take effect
C29_HoldsBetweenRenders == ~run.stale => C29_AllChangesTakeEffect

\* two calls have completed, each issued from the render that followed the one before
C29_WitnessRendered ==
    /\ ~run.stale
    /\ run.saving = <<>>
    /\ DOMAIN run.issued = {"analysisModel", "ttsEngine"}
    /\ run.settings = mem.settings

\* C26: the in-memory article list never diverges from the store on a segment's analysis
\* state: for every article in memory and every entry of its segment list, isAnalyzed
\* equals the isAnalyzed of the stored segment with the same (articleId, index), also
\* after updateSegmentAnalysis followed by a reload or an import
C26_AnalyzedFlagMatchesStore ==
    \A i \in 1..Len(mem.articles) :
        \A j \in 1..Len(mem.articles[i].segments) :
            LET entry == mem.articles[i].segments[j]
                stored == getSegment(db, mem.articles[i].id, entry.index)
            IN stored # Undefined => entry.isAnalyzed = stored.isAnalyzed

\* C27: the lemma deduplicates vocabulary items: after any sequence of
\* approveWordsForSegment and addCustomWordToSegment calls the store holds at most one
\* flashcard per (articleId, lemma)
C27_OneCardPerLemma ==
    \A x, y \in DOMAIN db.flashcards :
        (/\ db.flashcards[x].articleId = db.flashcards[y].articleId
         /\ db.flashcards[x].lemma = db.flashcards[y].lemma) => x = y

\* a record without some of its properties
Except(rec, names) == [k \in (DOMAIN rec) \ names |-> rec[k]]

\* C25: a read-modify-write of a segment writes back the record it read with its own
\* properties set: whatever another call wrote to the segment between this call's read
\* and its write is replaced by the values this call read, so the earlier update is lost
C25_LaterWriteReplacesRecord ==
    [][\A op \in SegmentCalls :
          (/\ run.calls[op].pc = "writing" /\ run'.calls[op].pc = "done"
           /\ PutsSegment(op, run.calls[op].segment)) =>
              Except(getSegment(db', 1, JumpIndex), WrittenBy(op))
                  = Except(run.calls[op].segment, WrittenBy(op))]_vars

\* the jump-to-part flow: updateSegmentAnalysis and the word selection's
\* approveWordsForSegment have both completed, both read the segment before either wrote,
\* and the analysis written first is gone from the stored segment
C25_Witness ==
    /\ run.calls["updateSegmentAnalysis"].pc = "done"
    /\ run.calls["approveWordsForSegment"].pc = "done"
    /\ run.calls["updateSegmentTranslation"].pc = "idle"
    /\ run.calls["addCustomWordToSegment"].pc = "idle"
    /\ last.op = "approveWordsForSegment"
    /\ ~run.calls["approveWordsForSegment"].segment.isAnalyzed
    /\ ~getSegment(db, 1, JumpIndex).isAnalyzed
    /\ getSegment(db, 1, JumpIndex).analyzedWords = <<>>

\* a translation written between the read and the write of updateSegmentAnalysis is lost
C25_WitnessTranslation ==
    /\ run.calls["updateSegmentTranslation"].pc = "done"
    /\ last.op = "updateSegmentAnalysis"
    /\ "persianTranslation" \in DOMAIN getSegment(last.pre, 1, JumpIndex)
    /\ "persianTranslation" \notin DOMAIN getSegment(db, 1, JumpIndex)

====
